---- MODULE Spec2Model ----
(***************************************************************************)
(* Verification model of the Mediaforce proposal generator:                *)
(*   app.py        free-text parser, pricing, section extractor, the       *)
(*                 /api/generate-from-text pipeline                        *)
(*   assembler.py  ProposalAssembler.assemble                              *)
(*   generator.py  the staged (outline -> sections -> findings) generator  *)
(* Python strings are sequences of one-character strings; indices of the   *)
(* string helpers are 0-based as in Python.                                *)
(***************************************************************************)
EXTENDS Integers, Sequences, FiniteSets, TLC

VARIABLES
    \* ---- extract_section(content, start_marker, end_marker) ----
    content, start_marker, end_marker, section,
    \* ---- parse_client_text(text): the loop over the lines ----
    text, lines, data, current_section, budget_num, parse_pc,
    \* ---- POST /api/generate-from-text: one request ----
    req_text, has_anthropic, api_key_set, web_pc, parsed, ai_content,
    svc_outcome, svc_calls, document, response, prompt,
    \* ---- ProposalAssembler.assemble: calls on one template and data map ----
    asm_template, asm_css, asm_data, clock, outputs, example_output,
    \* ---- PentestReportGenerator.generate: one run of the staged generator ----
    st_pc, st_responses, outline, risk_overview, st_calls, st_cause,
    \* ---- the JSON endpoints: one request with its body ----
    api_route, api_body, api_pc, api_response, api_html, api_invoked,
    \* ---- the session of one browser and the environment of the server ----
    flask_env, skip_auth, google, session_user, auth_last,
    \* ---- ProposalGenerator.generate: one run of the batch tool ----
    batch_pc, proposal_data, section_calls, files, batch_cause

exVars == <<content, start_marker, end_marker, section>>

parseVars == <<text, lines, data, current_section, budget_num, parse_pc>>

webVars == <<req_text, has_anthropic, api_key_set, web_pc, parsed, ai_content,
             svc_outcome, svc_calls, document, response, prompt>>

asmVars == <<asm_template, asm_css, asm_data, clock, outputs, example_output>>

stagedVars == <<st_pc, st_responses, outline, risk_overview, st_calls, st_cause>>

apiVars == <<api_route, api_body, api_pc, api_response, api_html, api_invoked>>

authVars == <<flask_env, skip_auth, google, session_user, auth_last>>

batchVars == <<batch_pc, proposal_data, section_calls, files, batch_cause>>

vars == <<exVars, parseVars, webVars, asmVars, stagedVars, apiVars, authVars, batchVars>>

\* the variables an action of one component leaves alone
notEx == <<parseVars, webVars, asmVars, stagedVars, apiVars, authVars, batchVars>>

notParse == <<exVars, webVars, asmVars, stagedVars, apiVars, authVars, batchVars>>

notWeb == <<exVars, parseVars, asmVars, stagedVars, apiVars, authVars, batchVars>>

notAsm == <<exVars, parseVars, webVars, stagedVars, apiVars, authVars, batchVars>>

notStaged == <<exVars, parseVars, webVars, asmVars, apiVars, authVars, batchVars>>

notApi == <<exVars, parseVars, webVars, asmVars, stagedVars, authVars, batchVars>>

notAuth == <<exVars, parseVars, webVars, asmVars, stagedVars, apiVars, batchVars>>

notBatch == <<exVars, parseVars, webVars, asmVars, stagedVars, apiVars, authVars>>

(***************************************************************************)
(* Bounds of the model                                                     *)
(***************************************************************************)
\* number of lexemes an AI content blob is built from
MaxParts == 3

(***************************************************************************)
(* Python string primitives                                                *)
(***************************************************************************)
\* Python's None (distinct from every string of the model's alphabet)
NoneVal == <<"None">>

\* a result that has not been produced yet
Unset == <<"Unset">>

MinOf(S) == CHOOSE x \in S : \A y \in S : x <= y

UpperLetters ==
    <<"A", "B", "C", "D", "E", "F", "G", "H", "I", "J", "K", "L", "M", "N", "O", "P", "Q", "R", "S", "T", "U", "V", "W", "X", "Y", "Z">>

LowerLetters ==
    <<"a", "b", "c", "d", "e", "f", "g", "h", "i", "j", "k", "l", "m", "n", "o", "p", "q", "r", "s", "t", "u", "v", "w", "x", "y", "z">>

\* str.lower() on one character
UpperSet == {UpperLetters[i] : i \in 1..26}

LowerOf == [c \in UpperSet |-> LowerLetters[CHOOSE i \in 1..26 : UpperLetters[i] = c]]

LowerChar(c) == IF c \in UpperSet THEN LowerOf[c] ELSE c

\* str.lower()
Lower(s) == [i \in 1..Len(s) |-> LowerChar(s[i])]

\* characters str.strip() and the regex class \s remove
Whitespace == {" ", "\n", "\t"}

\* s.find(pat, from): lowest 0-based index >= from where pat occurs, else -1
Find(s, pat, from) ==
    LET cand == {i \in from..(Len(s) - Len(pat)) :
                    \A k \in 1..Len(pat) : s[i + k] = pat[k]}
    IN  IF cand = {} THEN -1 ELSE MinOf(cand)

\* pat occurs in s at 0-based index i
MatchAt(s, pat, i) ==
    /\ i + Len(pat) <= Len(s)
    /\ \A k \in 1..Len(pat) : s[i + k] = pat[k]

\* pat in s
Contains(s, pat) == Find(s, pat, 0) # -1

\* s.startswith(pat)
StartsWith(s, pat) ==
    /\ Len(pat) <= Len(s)
    /\ \A k \in 1..Len(pat) : s[k] = pat[k]

\* s[a:b] for 0 <= a
Slice(s, a, b) ==
    LET hi == IF b > Len(s) THEN Len(s) ELSE b
    IN  IF a >= hi THEN <<>> ELSE SubSeq(s, a + 1, hi)

\* s.replace(c, d) for single characters
ReplaceChar(s, c, d) == [i \in 1..Len(s) |-> IF s[i] = c THEN d ELSE s[i]]

\* s.lstrip() / s.strip() with whitespace
LStripWs(s) ==
    LET keep == {i \in 1..Len(s) : s[i] \notin Whitespace}
    IN  IF keep = {} THEN <<>> ELSE SubSeq(s, MinOf(keep), Len(s))

Strip(s) ==
    LET keep == {i \in 1..Len(s) : s[i] \notin Whitespace}
    IN  IF keep = {} THEN <<>>
        ELSE SubSeq(s, MinOf(keep), CHOOSE j \in keep : \A k \in keep : k <= j)

RECURSIVE Concat(_)
\* ''.join(parts)
Concat(parts) ==
    IF parts = <<>> THEN <<>> ELSE Head(parts) \o Concat(Tail(parts))

(***************************************************************************)
(* extract_section (app.py)                                                *)
(***************************************************************************)
IN_PROGRESS ==
    <<"<", "p", ">", "C", "o", "n", "t", "e", "n", "t", " ", "g", "e", "n", "e", "r", "a", "t", "i", "o", "n", " ", "i", "n", " ", "p", "r", "o", "g", "r", "e", "s", "s", ".", ".", ".", "<", "/", "p", ">">>

NOT_AVAILABLE ==
    <<"<", "p", ">", "S", "e", "c", "t", "i", "o", "n", " ", "c", "o", "n", "t", "e", "n", "t", " ", "n", "o", "t", " ", "a", "v", "a", "i", "l", "a", "b", "l", "e", ".", "<", "/", "p", ">">>

SECTION_PREFIX ==
    <<"<", "!", "-", "-", " ", "S", "E", "C", "T", "I", "O", "N", ":", " ">>

COMMENT_PREFIX ==
    <<"<", "!", "-", "-", " ">>

COMMENT_OPEN ==
    <<"<", "!", "-", "-">>

\* offset of the heading search for the end marker (start_idx + 50)
HeadingSkip == 50

\* end (exclusive, 0-based) of a match of <!--[^>]*--> that starts at i, or -1
CommentMatchEnd(s, i) ==
    LET gt == {p \in (i + 4)..(Len(s) - 1) : s[p + 1] = ">"}
    IN  IF ~ MatchAt(s, COMMENT_OPEN, i) \/ gt = {} THEN -1
        ELSE LET p == MinOf(gt)
             IN  IF p >= i + 6 /\ s[p] = "-" /\ s[p - 1] = "-" THEN p + 1 ELSE -1

RECURSIVE RemoveComments(_)
\* re.sub(r'<!--[^>]*-->', '', s)
RemoveComments(s) ==
    LET starts == {i \in 0..(Len(s) - 1) : CommentMatchEnd(s, i) # -1}
    IN  IF starts = {} THEN s
        ELSE LET i == MinOf(starts)
             IN  Slice(s, 0, i) \o RemoveComments(Slice(s, CommentMatchEnd(s, i), Len(s)))

\* length of the match of ^<h[23][^>]*>[^<]*</h[23]>\s* (IGNORECASE) at the
\* start of s, or 0 when the pattern does not match
HeadingMatchLen(s) ==
    LET gt == {p \in 3..(Len(s) - 1) : s[p + 1] = ">"}
    IN  IF ~ (Len(s) >= 3 /\ s[1] = "<" /\ LowerChar(s[2]) = "h" /\ s[3] \in {"2", "3"})
           \/ gt = {}
        THEN 0
        ELSE LET p  == MinOf(gt)
                 lt == {q \in (p + 1)..(Len(s) - 1) : s[q + 1] = "<"}
             IN  IF lt = {} THEN 0
                 ELSE LET q == MinOf(lt)
                      IN  IF /\ q + 5 <= Len(s)
                             /\ s[q + 2] = "/"
                             /\ LowerChar(s[q + 3]) = "h"
                             /\ s[q + 4] \in {"2", "3"}
                             /\ s[q + 5] = ">"
                          THEN LET rest == Slice(s, q + 5, Len(s))
                               IN  (q + 5) + (Len(rest) - Len(LStripWs(rest)))
                          ELSE 0

\* re.sub(r'^<h[23][^>]*>[^<]*</h[23]>\s*', '', s, flags=re.IGNORECASE)
RemoveLeadingHeading(s) == Slice(s, HeadingMatchLen(s), Len(s))

\* the start search with the looser marker tried before the strict one
FindStartLooseFirst(c, marker) ==
    LET i1 == Find(c, SECTION_PREFIX \o marker, 0)
        i2 == Find(c, COMMENT_PREFIX \o marker, 0)
        i3 == Find(Lower(c), ReplaceChar(Lower(marker), "_", " "), 0)
    IN  IF i2 # -1 THEN <<i2, Len(COMMENT_PREFIX) + Len(marker)>>
        ELSE IF i1 # -1 THEN <<i1, Len(SECTION_PREFIX) + Len(marker)>>
        ELSE <<i3, Len(marker)>>

\* the three-tier search for the start marker; <<start_idx, len(start_pattern)>>
FindStart(c, marker) ==
    LET i1 == Find(c, SECTION_PREFIX \o marker, 0)
        i2 == Find(c, COMMENT_PREFIX \o marker, 0)
        i3 == Find(Lower(c), ReplaceChar(Lower(marker), "_", " "), 0)
    IN  IF i1 # -1 THEN <<i1, Len(SECTION_PREFIX) + Len(marker)>>
        ELSE IF i2 # -1 THEN <<i2, Len(COMMENT_PREFIX) + Len(marker)>>
        ELSE <<i3, Len(marker)>>

\* the end search with the name tier scanning from where the marker tiers do
FindEndSamePosition(c, marker, start_idx, pat_len) ==
    IF marker = NoneVal \/ marker = <<>> THEN Len(c)
    ELSE LET e1 == Find(c, SECTION_PREFIX \o marker, start_idx + pat_len)
             e2 == Find(c, COMMENT_PREFIX \o marker, start_idx + pat_len)
             e3 == Find(Lower(c), ReplaceChar(Lower(marker), "_", " "),
                        start_idx + pat_len)
             e  == IF e1 # -1 THEN e1 ELSE IF e2 # -1 THEN e2 ELSE e3
         IN  IF e = -1 THEN Len(c) ELSE e

\* the search for the end of the section
FindEnd(c, marker, start_idx, pat_len) ==
    IF marker = NoneVal \/ marker = <<>> THEN Len(c)
    ELSE LET e1 == Find(c, SECTION_PREFIX \o marker, start_idx + pat_len)
             e2 == Find(c, COMMENT_PREFIX \o marker, start_idx + pat_len)
             e3 == Find(Lower(c), ReplaceChar(Lower(marker), "_", " "),
                        start_idx + HeadingSkip)
             e  == IF e1 # -1 THEN e1 ELSE IF e2 # -1 THEN e2 ELSE e3
         IN  IF e = -1 THEN Len(c) ELSE e

\* the fragment after cleaning, before the final emptiness test
CleanSection(raw) == RemoveLeadingHeading(Strip(RemoveComments(raw)))

\* the value extract_section returns for a cleaned fragment
ExtractResultBlank(cleaned) == cleaned

ExtractResult(cleaned) ==
    IF cleaned # <<>> THEN cleaned ELSE NOT_AVAILABLE

\* extract_section with the first test written "content is None"
extract_section_none_only(c, start, end) ==
    IF c = NoneVal THEN IN_PROGRESS
    ELSE LET st == FindStart(c, start)
         IN  IF st[1] = -1 THEN NOT_AVAILABLE
             ELSE ExtractResult(
                    CleanSection(Slice(c, st[1], FindEnd(c, end, st[1], st[2]))))

extract_section(c, start, end) ==
    IF c = NoneVal \/ c = <<>> THEN IN_PROGRESS
    ELSE LET st == FindStart(c, start)
         IN  IF st[1] = -1 THEN NOT_AVAILABLE
             ELSE ExtractResult(
                    CleanSection(Slice(c, st[1], FindEnd(c, end, st[1], st[2]))))

(***************************************************************************)
(* The components are checked one at a time: each specification starts the *)
(* variables of the others at these idle values and never changes them.    *)
(***************************************************************************)
\* no document has been built yet
NoDocument == [kind |-> "none"]

\* no response has been sent yet
\* no prompt has been built
NoPrompt == [kind |-> "none"]

NoResponse == [success |-> FALSE, status |-> 0]

InitParseIdle ==
    /\ text = <<>>
    /\ lines = <<>>
    /\ data = <<>>
    /\ current_section = "none"
    /\ budget_num = -1
    /\ parse_pc = "idle"

InitExIdle ==
    /\ content = NoneVal
    /\ start_marker = <<>>
    /\ end_marker = NoneVal
    /\ section = NoneVal

InitWebIdle ==
    /\ req_text = <<>>
    /\ has_anthropic = FALSE
    /\ api_key_set = FALSE
    /\ web_pc = "idle"
    /\ parsed = NoneVal
    /\ ai_content = NoneVal
    /\ svc_outcome = "not_called"
    /\ svc_calls = 0
    /\ document = NoDocument
    /\ response = NoResponse
    /\ prompt = NoPrompt

InitAsmIdle ==
    /\ asm_template = <<>>
    /\ asm_css = <<>>
    /\ asm_data = <<>>
    /\ clock = 1
    /\ outputs = <<>>
    /\ example_output = Unset

InitStagedIdle ==
    /\ st_pc = "idle"
    /\ st_responses = <<>>
    /\ outline = [type |-> "unset", source |-> "unset"]
    /\ risk_overview = [type |-> "unset", source |-> "unset"]
    /\ st_calls = 0
    /\ st_cause = "none"

InitApiIdle ==
    /\ api_route = "idle"
    /\ api_body = [kind |-> "none"]
    /\ api_pc = "idle"
    /\ api_response = NoResponse
    /\ api_html = NoDocument
    /\ api_invoked = {}

\* session['user'] is absent
NoUser == [email |-> NoneVal]

\* no request has been handled
NoRequest == [route |-> "none", outcome |-> "none"]

InitAuthIdle ==
    /\ flask_env = "idle"
    /\ skip_auth = NoneVal
    /\ google = "idle"
    /\ session_user = NoUser
    /\ auth_last = NoRequest

InitBatchIdle ==
    /\ batch_pc = "idle"
    /\ proposal_data = <<>>
    /\ section_calls = <<>>
    /\ files = <<>>
    /\ batch_cause = "none"

(***************************************************************************)
(* parse_client_text (app.py)                                              *)
(***************************************************************************)
\* s.find(c) for a set of characters: lowest 0-based index of a member, or -1
FindAny(s, chars) ==
    LET cand == {i \in 1..Len(s) : s[i] \in chars}
    IN  IF cand = {} THEN -1 ELSE MinOf(cand) - 1

RECURSIVE SplitOn(_, _)
\* re.split on a character class / str.split on one character
SplitOn(s, seps) ==
    LET i == FindAny(s, seps)
    IN  IF i = -1 THEN <<s>>
        ELSE <<Slice(s, 0, i)>> \o SplitOn(Slice(s, i + 1, Len(s)), seps)

\* s.lstrip(chars)
LStripChars(s, chars) ==
    LET keep == {i \in 1..Len(s) : s[i] \notin chars}
    IN  IF keep = {} THEN <<>> ELSE SubSeq(s, MinOf(keep), Len(s))

\* any(x in lower for x in keywords)
AnyIn(lower, keywords) == \E x \in keywords : Contains(lower, x)

\* re.sub(r'^[^:]+:\s*', '', line)
StripKey(line) ==
    LET i == FindAny(line, {":"})
    IN  IF i < 1 THEN line ELSE LStripWs(Slice(line, i + 1, Len(line)))

CompanyKeys  == { <<"c", "o", "m", "p", "a", "n", "y", ":">>, <<"b", "u", "s", "i", "n", "e", "s", "s", ":">>, <<"c", "l", "i", "e", "n", "t", ":">>, <<"n", "a", "m", "e", ":">> }
IndustryKeys == { <<"i", "n", "d", "u", "s", "t", "r", "y", ":">>, <<"s", "e", "c", "t", "o", "r", ":">> }
LocationKeys == { <<"l", "o", "c", "a", "t", "i", "o", "n", ":">>, <<"c", "i", "t", "y", ":">>, <<"a", "d", "d", "r", "e", "s", "s", ":">> }
BudgetKeys   == { <<"b", "u", "d", "g", "e", "t", ":">>, <<"i", "n", "v", "e", "s", "t", "m", "e", "n", "t", ":">>, <<"s", "p", "e", "n", "d", ":">> }
WebsiteKeys  == { <<"w", "e", "b", "s", "i", "t", "e", ":">>, <<"u", "r", "l", ":">>, <<"s", "i", "t", "e", ":">> }
ContactKeys  == { <<"c", "o", "n", "t", "a", "c", "t", ":">>, <<"e", "m", "a", "i", "l", ":">>, <<"p", "h", "o", "n", "e", ":">> }
AudienceKeys == { <<"a", "u", "d", "i", "e", "n", "c", "e", ":">>, <<"t", "a", "r", "g", "e", "t", ":">>, <<"c", "u", "s", "t", "o", "m", "e", "r">> }
ChallengeKeys == { <<"c", "h", "a", "l", "l", "e", "n", "g", "e">>, <<"p", "r", "o", "b", "l", "e", "m">>, <<"p", "a", "i", "n">>, <<"i", "s", "s", "u", "e">>, <<"s", "t", "r", "u", "g", "g", "l", "e">> }
GoalKeys     == { <<"g", "o", "a", "l">>, <<"o", "b", "j", "e", "c", "t", "i", "v", "e">>, <<"t", "a", "r", "g", "e", "t">>, <<"w", "a", "n", "t">>, <<"a", "i", "m">> }
ServiceKeys  == { <<"s", "e", "r", "v", "i", "c", "e">>, <<"n", "e", "e", "d">>, <<"l", "o", "o", "k", "i", "n", "g", " ", "f", "o", "r">>, <<"i", "n", "t", "e", "r", "e", "s", "t">> }
CompetitorKeys == { <<"c", "o", "m", "p", "e", "t", "i", "t", "o", "r">>, <<"c", "o", "m", "p", "e", "t", "i", "t", "i", "o", "n">> }

\* the glyphs a bullet line starts with
\* ("u2022" stands for the one character U+2022, the bullet)
BulletGlyphs == {"-", "*", "u2022"}

\* the record parse_client_text starts from
EmptyData ==
    [ company |-> <<>>, industry |-> <<>>, location |-> <<>>,
      challenges |-> <<>>, goals |-> <<>>, budget |-> <<>>,
      services |-> <<>>, contact |-> <<>>, website |-> <<>>,
      audience |-> <<>>, competitors |-> <<>> ]

\* the split of the inline list without the strip of each part
SplitServicesUnstripped(services_text) ==
    LET parts == SplitOn(services_text, {",", ";"})
    IN  SelectSeq(parts, LAMBDA x : Strip(x) # <<>>)

\* [s.strip() for s in re.split(r'[,;]', services_text) if s.strip()]
SplitServices(services_text) ==
    LET parts == SplitOn(services_text, {",", ";"})
    IN  SelectSeq([i \in 1..Len(parts) |-> Strip(parts[i])], LAMBDA x : x # <<>>)

\* lines = text.strip().split('\n')
SplitLines(t) == SplitOn(Strip(t), {"\n"})

\* the list a bullet item is appended to
BulletLists == {"challenges", "goals", "services", "competitors"}

\* continuation lines appended to every list a bullet item can go to
ContinuationListsAll == {"challenges", "goals", "services", "competitors"}

\* the list a non-bullet continuation line is appended to
ContinuationLists == {"challenges", "goals"}

\* the loop body with the bullet test placed before the keyword tests
ParseLineStepBulletFirst(d, cur, rawline) ==
    LET line  == Strip(rawline)
        lower == Lower(line)
    IN  IF line = <<>> THEN [data |-> d, current_section |-> cur]
        ELSE IF line[1] \in BulletGlyphs THEN
            LET item == Strip(LStripChars(line, BulletGlyphs \cup {" "}))
            IN  [data |-> IF cur \in BulletLists
                          THEN [d EXCEPT ![cur] = Append(@, item)] ELSE d,
                 current_section |-> cur]
        ELSE IF AnyIn(lower, CompanyKeys) THEN
            [data |-> [d EXCEPT !.company = StripKey(line)], current_section |-> "none"]
        ELSE IF AnyIn(lower, IndustryKeys) THEN
            [data |-> [d EXCEPT !.industry = StripKey(line)], current_section |-> "none"]
        ELSE IF AnyIn(lower, LocationKeys) THEN
            [data |-> [d EXCEPT !.location = StripKey(line)], current_section |-> "none"]
        ELSE IF AnyIn(lower, BudgetKeys) THEN
            [data |-> [d EXCEPT !.budget = StripKey(line)], current_section |-> "none"]
        ELSE IF AnyIn(lower, WebsiteKeys) THEN
            [data |-> [d EXCEPT !.website = StripKey(line)], current_section |-> "none"]
        ELSE IF AnyIn(lower, ContactKeys) THEN
            [data |-> [d EXCEPT !.contact = StripKey(line)], current_section |-> "none"]
        ELSE IF AnyIn(lower, AudienceKeys) THEN
            [data |-> IF Contains(line, <<":">>)
                      THEN [d EXCEPT !.audience = StripKey(line)] ELSE d,
             current_section |-> "audience"]
        ELSE IF AnyIn(lower, ChallengeKeys) THEN
            [data |-> d, current_section |-> "challenges"]
        ELSE IF AnyIn(lower, GoalKeys) THEN
            [data |-> d, current_section |-> "goals"]
        ELSE IF AnyIn(lower, ServiceKeys) THEN
            [data |-> IF Contains(line, <<":">>)
                      THEN [d EXCEPT !.services = SplitServices(StripKey(line))] ELSE d,
             current_section |-> "services"]
        ELSE IF AnyIn(lower, CompetitorKeys) THEN
            [data |-> d, current_section |-> "competitors"]
        ELSE IF line[1] \in BulletGlyphs THEN
            LET item == Strip(LStripChars(line, BulletGlyphs \cup {" "}))
            IN  [data |-> IF cur \in BulletLists
                          THEN [d EXCEPT ![cur] = Append(@, item)] ELSE d,
                 current_section |-> cur]
        ELSE
            [data |-> IF cur \in ContinuationLists
                      THEN [d EXCEPT ![cur] = Append(@, line)] ELSE d,
             current_section |-> cur]

\* one iteration of the loop over the lines: [data, current_section]
ParseLineStep(d, cur, rawline) ==
    LET line  == Strip(rawline)
        lower == Lower(line)
    IN  IF line = <<>> THEN [data |-> d, current_section |-> cur]
        ELSE IF AnyIn(lower, CompanyKeys) THEN
            [data |-> [d EXCEPT !.company = StripKey(line)], current_section |-> "none"]
        ELSE IF AnyIn(lower, IndustryKeys) THEN
            [data |-> [d EXCEPT !.industry = StripKey(line)], current_section |-> "none"]
        ELSE IF AnyIn(lower, LocationKeys) THEN
            [data |-> [d EXCEPT !.location = StripKey(line)], current_section |-> "none"]
        ELSE IF AnyIn(lower, BudgetKeys) THEN
            [data |-> [d EXCEPT !.budget = StripKey(line)], current_section |-> "none"]
        ELSE IF AnyIn(lower, WebsiteKeys) THEN
            [data |-> [d EXCEPT !.website = StripKey(line)], current_section |-> "none"]
        ELSE IF AnyIn(lower, ContactKeys) THEN
            [data |-> [d EXCEPT !.contact = StripKey(line)], current_section |-> "none"]
        ELSE IF AnyIn(lower, AudienceKeys) THEN
            [data |-> IF Contains(line, <<":">>)
                      THEN [d EXCEPT !.audience = StripKey(line)] ELSE d,
             current_section |-> "audience"]
        ELSE IF AnyIn(lower, ChallengeKeys) THEN
            [data |-> d, current_section |-> "challenges"]
        ELSE IF AnyIn(lower, GoalKeys) THEN
            [data |-> d, current_section |-> "goals"]
        ELSE IF AnyIn(lower, ServiceKeys) THEN
            [data |-> IF Contains(line, <<":">>)
                      THEN [d EXCEPT !.services = SplitServices(StripKey(line))] ELSE d,
             current_section |-> "services"]
        ELSE IF AnyIn(lower, CompetitorKeys) THEN
            [data |-> d, current_section |-> "competitors"]
        ELSE IF line[1] \in BulletGlyphs THEN
            LET item == Strip(LStripChars(line, BulletGlyphs \cup {" "}))
            IN  [data |-> IF cur \in BulletLists
                          THEN [d EXCEPT ![cur] = Append(@, item)] ELSE d,
                 current_section |-> cur]
        ELSE
            [data |-> IF cur \in ContinuationLists
                      THEN [d EXCEPT ![cur] = Append(@, line)] ELSE d,
             current_section |-> cur]

Digits ==
    <<"0", "1", "2", "3", "4", "5", "6", "7", "8", "9">>

DigitSet == {Digits[i] : i \in 1..10}

DigitVal == [c \in DigitSet |-> (CHOOSE i \in 1..10 : Digits[i] = c) - 1]

\* the characters of the class [\d,]
DigitOrComma == DigitSet \cup {","}

\* the longest prefix of s made of characters of the class
RunOf(s, class) ==
    LET stop == {i \in 1..Len(s) : s[i] \notin class}
    IN  IF stop = {} THEN s ELSE SubSeq(s, 1, MinOf(stop) - 1)

\* group 1 of re.search(r'\$?([\d,]+)', b), or NoneVal when there is no match
BudgetMatch(b) ==
    LET cand == {i \in 1..Len(b) : b[i] \in DigitOrComma}
    IN  IF cand = {} THEN NoneVal
        ELSE RunOf(SubSeq(b, MinOf(cand), Len(b)), DigitOrComma)

\* s.replace(',', '')
StripCommas(s) == SelectSeq(s, LAMBDA c : c # ",")

RECURSIVE IntOf(_)
\* int(s) for a non-empty string of decimal digits
IntOf(s) ==
    IF s = <<>> THEN 0
    ELSE 10 * IntOf(SubSeq(s, 1, Len(s) - 1)) + DigitVal[s[Len(s)]]

\* budget_num when the budget field is empty or holds no match
DefaultBudget == 2500

\* the budget extraction: [raised, budget_num]; int('') raises ValueError
BudgetNum(b) ==
    IF b = <<>> THEN [raised |-> FALSE, budget_num |-> DefaultBudget]
    ELSE LET g == BudgetMatch(b)
         IN  IF g = NoneVal THEN [raised |-> FALSE, budget_num |-> DefaultBudget]
             ELSE IF StripCommas(g) = <<>> THEN [raised |-> TRUE, budget_num |-> -1]
             ELSE [raised |-> FALSE, budget_num |-> IntOf(StripCommas(g))]

\* services when none was found
DefaultServices == << <<"G", "o", "o", "g", "l", "e", " ", "A", "d", "s">>, <<"S", "E", "O">> >>

\* the default services stored whatever was collected
WithDefaultServicesAlways(d) ==
    [d EXCEPT !.services = DefaultServices]

\* if not data['services']: data['services'] = ['Google Ads', 'SEO']
WithDefaultServices(d) ==
    IF d.services = <<>> THEN [d EXCEPT !.services = DefaultServices] ELSE d

RECURSIVE ScanLines(_, _, _)
\* the whole loop over the lines
ScanLines(d, cur, ls) ==
    IF ls = <<>> THEN d
    ELSE LET r == ParseLineStep(d, cur, Head(ls))
         IN  ScanLines(r.data, r.current_section, Tail(ls))

\* parse_client_text(text): [raised, data, budget_num]
parse_client_text(t) ==
    LET d == ScanLines(EmptyData, "none", SplitLines(t))
        b == BudgetNum(d.budget)
    IN  [raised |-> b.raised, budget_num |-> b.budget_num,
         data |-> IF b.raised THEN d ELSE WithDefaultServices(d)]

(***************************************************************************)
(* Pricing and service flags (app.py)                                      *)
(***************************************************************************)
\* any(k in s.lower() for s in services for k in keywords)
AnyService(services, keywords) ==
    \E i \in 1..Len(services) : AnyIn(Lower(services[i]), keywords)

GoogleKeysAI     == { <<"g", "o", "o", "g", "l", "e">>, <<"a", "d", "s">>, <<"p", "p", "c">> }
SeoKeysAI        == { <<"s", "e", "o">> }
SocialKeys       == { <<"s", "o", "c", "i", "a", "l">>, <<"f", "a", "c", "e", "b", "o", "o", "k">>, <<"i", "n", "s", "t", "a", "g", "r", "a", "m">>, <<"l", "i", "n", "k", "e", "d", "i", "n">> }
WebsiteServiceKeys == { <<"w", "e", "b">>, <<"s", "i", "t", "e">> }
GoogleKeysTemplate == { <<"g", "o", "o", "g", "l", "e">>, <<"a", "d", "s">>, <<"p", "p", "c">>, <<"s", "e", "m">> }
SeoKeysTemplate  == { <<"s", "e", "o">>, <<"o", "r", "g", "a", "n", "i", "c">>, <<"s", "e", "a", "r", "c", "h", " ", "e", "n", "g", "i", "n", "e", " ", "o", "p", "t">> }

\* the flags build_proposal_with_ai_content derives
AIFlags(services) ==
    [ has_google_ads |-> AnyService(services, GoogleKeysAI),
      has_seo        |-> AnyService(services, SeoKeysAI),
      has_social     |-> AnyService(services, SocialKeys),
      has_website    |-> AnyService(services, WebsiteServiceKeys) ]

\* the flags of the template-only path, with the Google Ads + SEO default
TemplateFlags(services) ==
    LET g == AnyService(services, GoogleKeysTemplate)
        s == AnyService(services, SeoKeysTemplate)
        o == AnyService(services, SocialKeys)
        none == ~g /\ ~s /\ ~o
    IN  [ has_google_ads |-> g \/ none,
          has_seo        |-> s \/ none,
          has_social     |-> o ]

\* management_fee = min(899, budget // 3) if budget > 1500 else 499
AIManagementFee(budget) ==
    IF budget > 1500
    THEN (IF budget \div 3 < 899 THEN budget \div 3 ELSE 899)
    ELSE 499

\* the management fee the prompt quotes: min(899, budget//3)
PromptManagementFee(budget) ==
    IF budget \div 3 < 899 THEN budget \div 3 ELSE 899

\* the ad spend the prompt quotes: budget - min(899, budget//3)
PromptAdSpend(budget) == budget - PromptManagementFee(budget)

\* the pricing figures of the prompt generate_ai_proposal sends
BuildPrompt(budget) ==
    [ kind |-> "prompt",
      budget |-> budget,
      management_fee |-> PromptManagementFee(budget),
      ad_spend |-> PromptAdSpend(budget) ]

\* the ad spend of the AI-content path with the floor of the tiered rule
AIAdSpendFloored(budget) ==
    IF budget > AIManagementFee(budget)
    THEN budget - AIManagementFee(budget)
    ELSE 1500

\* ad_spend = budget - management_fee
AIAdSpend(budget) == budget - AIManagementFee(budget)

\* management_fee = 899 if budget < 3000 else 1200 if budget < 5000 else 1500
TieredManagementFee(budget) ==
    IF budget < 3000 THEN 899 ELSE IF budget < 5000 THEN 1200 ELSE 1500

\* the ad spend with the comparison written >= instead of >
TieredAdSpendAtLeast(budget) ==
    IF budget >= TieredManagementFee(budget)
    THEN budget - TieredManagementFee(budget)
    ELSE 1500

\* ad_spend = budget - management_fee if budget > management_fee else 1500
TieredAdSpend(budget) ==
    IF budget > TieredManagementFee(budget)
    THEN budget - TieredManagementFee(budget)
    ELSE 1500

\* seo_fee = 1100 if budget > 2000 else 799
SeoFee(budget) == IF budget > 2000 THEN 1100 ELSE 799

\* social_fee = 800 if budget > 2000 else 599
SocialFee(budget) == IF budget > 2000 THEN 800 ELSE 599

\* total_monthly of build_proposal_with_ai_content
AITotalMonthly(flags, budget, management_fee, ad_spend) ==
    (IF flags.has_google_ads THEN management_fee ELSE 0)
    + (IF flags.has_seo THEN SeoFee(budget) ELSE 0)
    + (IF flags.has_social THEN SocialFee(budget) ELSE 0)
    + ad_spend

(***************************************************************************)
(* The documents (app.py)                                                  *)
(***************************************************************************)
\* the section names of the AI path, in document order
AISectionNames == <<
    <<"E", "X", "E", "C", "U", "T", "I", "V", "E", " ", "S", "U", "M", "M", "A", "R", "Y">>,
    <<"U", "N", "D", "E", "R", "S", "T", "A", "N", "D", "I", "N", "G", " ", "Y", "O", "U", "R", " ", "B", "U", "S", "I", "N", "E", "S", "S">>,
    <<"Y", "O", "U", "R", " ", "G", "O", "A", "L", "S">>,
    <<"O", "U", "R", " ", "S", "T", "R", "A", "T", "E", "G", "Y">>,
    <<"I", "M", "P", "L", "E", "M", "E", "N", "T", "A", "T", "I", "O", "N">>,
    <<"I", "N", "V", "E", "S", "T", "M", "E", "N", "T">>,
    <<"N", "E", "X", "T", " ", "S", "T", "E", "P", "S">> >>

\* the sections a complete proposal holds
RequiredSections == { AISectionNames[i] : i \in 1..7 }

\* extract_section(ai_content, name, next name) for the seven sections
AISections(ai) ==
    [ i \in 1..7 |->
        [ role |-> AISectionNames[i],
          body |-> extract_section(ai, AISectionNames[i],
                       IF i < 7 THEN AISectionNames[i + 1] ELSE NoneVal) ] ]

\* build_proposal_with_ai_content(...)
build_proposal_with_ai_content(company, budget, management_fee, ad_spend, ai, services) ==
    LET flags == AIFlags(services)
    IN  [ kind |-> "ai",
          company |-> company,
          flags |-> [ has_google_ads |-> flags.has_google_ads,
                      has_seo |-> flags.has_seo,
                      has_social |-> flags.has_social ],
          budget_shown |-> budget,
          fee_shown |-> flags.has_google_ads,
          management_fee |-> management_fee,
          ad_spend |-> ad_spend,
          total_monthly |-> AITotalMonthly(flags, budget, management_fee, ad_spend),
          sections |-> AISections(ai) ]

\* s[:n] of a list
FirstN(s, n) == IF Len(s) <= n THEN s ELSE SubSeq(s, 1, n)

\* ''.join(f'<li>{x}</li>' for x in items)
ListItems(items) ==
    Concat([i \in 1..Len(items) |-> <<"<", "l", "i", ">">> \o items[i] \o <<"<", "/", "l", "i", ">">>])

DefaultCompany == <<"Y", "o", "u", "r", " ", "C", "o", "m", "p", "a", "n", "y">>

DefaultIndustry == <<"Y", "o", "u", "r", " ", "I", "n", "d", "u", "s", "t", "r", "y">>

DefaultChallenges == <<
    <<"I", "n", "c", "r", "e", "a", "s", "e", " ", "o", "n", "l", "i", "n", "e", " ", "v", "i", "s", "i", "b", "i", "l", "i", "t", "y">>,
    <<"G", "e", "n", "e", "r", "a", "t", "e", " ", "m", "o", "r", "e", " ", "l", "e", "a", "d", "s">>,
    <<"I", "m", "p", "r", "o", "v", "e", " ", "c", "o", "n", "v", "e", "r", "s", "i", "o", "n", " ", "r", "a", "t", "e", "s">> >>

DefaultGoals == <<
    <<"G", "r", "o", "w", " ", "w", "e", "b", "s", "i", "t", "e", " ", "t", "r", "a", "f", "f", "i", "c">>,
    <<"I", "n", "c", "r", "e", "a", "s", "e", " ", "q", "u", "a", "l", "i", "f", "i", "e", "d", " ", "l", "e", "a", "d", "s">>,
    <<"B", "o", "o", "s", "t", " ", "r", "e", "v", "e", "n", "u", "e">> >>

\* x or default
OrDefault(x, default) == IF x = <<>> THEN default ELSE x

\* the cards of the "Our Approach" section
StrategyCards(flags) ==
    (IF flags.has_google_ads THEN <<"<", "h", "3", ">", "G", "o", "o", "g", "l", "e", " ", "A", "d", "s", " ", "M", "a", "n", "a", "g", "e", "m", "e", "n", "t", "<", "/", "h", "3", ">">> ELSE <<>>)
    \o (IF flags.has_seo THEN <<"<", "h", "3", ">", "A", "I", "-", "F", "r", "i", "e", "n", "d", "l", "y", " ", "S", "E", "O", "<", "/", "h", "3", ">">> ELSE <<>>)
    \o (IF flags.has_social THEN <<"<", "h", "3", ">", "P", "a", "i", "d", " ", "S", "o", "c", "i", "a", "l", " ", "M", "e", "d", "i", "a", "<", "/", "h", "3", ">">> ELSE <<>>)

\* the sections of the template-only document, by their comment label
TemplateSections(company, industry, location, challenges, goals, flags) ==
    << [ role |-> <<"U", "N", "D", "E", "R", "S", "T", "A", "N", "D", "I", "N", "G", " ", "Y", "O", "U", "R", " ", "B", "U", "S", "I", "N", "E", "S", "S">>,
         body |-> company \o industry \o location \o ListItems(FirstN(challenges, 5)) ],
       [ role |-> <<"Y", "O", "U", "R", " ", "G", "O", "A", "L", "S">>,
         body |-> ListItems(FirstN(goals, 3)) \o <<"<", "l", "i", ">", "P", "r", "e", "d", "i", "c", "t", "a", "b", "l", "e", " ", "l", "e", "a", "d", " ", "g", "e", "n", "e", "r", "a", "t", "i", "o", "n", "<", "/", "l", "i", ">">> ],
       [ role |-> <<"O", "U", "R", " ", "S", "T", "R", "A", "T", "E", "G", "Y">>,
         body |-> StrategyCards(flags) ],
       [ role |-> <<"I", "M", "P", "L", "E", "M", "E", "N", "T", "A", "T", "I", "O", "N">>,
         body |-> <<"<", "h", "4", ">", "D", "i", "s", "c", "o", "v", "e", "r", "y", " ", "&", " ", "S", "e", "t", "u", "p", "<", "/", "h", "4", ">">> ],
       [ role |-> <<"I", "N", "V", "E", "S", "T", "M", "E", "N", "T">>,
         body |-> <<"I", "n", "c", "l", "u", "d", "e", "s", " ", "f", "u", "l", "l", " ", "c", "a", "m", "p", "a", "i", "g", "n", " ", "m", "a", "n", "a", "g", "e", "m", "e", "n", "t">> ],
       [ role |-> <<"N", "E", "X", "T", " ", "S", "T", "E", "P", "S">>,
         body |-> <<"<", "h", "2", ">", "R", "e", "a", "d", "y", " ", "t", "o", " ", "G", "e", "t", " ", "S", "t", "a", "r", "t", "e", "d", "?", "<", "/", "h", "2", ">">> ] >>

\* the template-only branch of generate_proposal_from_text
TemplateDocument(d, budget) ==
    LET flags == TemplateFlags(d.services)
    IN  [ kind |-> "template",
          company |-> OrDefault(d.company, DefaultCompany),
          flags |-> flags,
          budget_shown |-> budget,
          fee_shown |-> TRUE,
          management_fee |-> TieredManagementFee(budget),
          ad_spend |-> TieredAdSpend(budget),
          total_monthly |-> budget,
          sections |-> TemplateSections(OrDefault(d.company, DefaultCompany),
                                        OrDefault(d.industry, DefaultIndustry),
                                        d.location,
                                        OrDefault(d.challenges, DefaultChallenges),
                                        OrDefault(d.goals, DefaultGoals),
                                        flags) ]

\* generate_proposal_from_text after the parse, given what the service returned
ProposalDocument(d, budget, ai) ==
    IF ai # NoneVal /\ ai # <<>>
    THEN build_proposal_with_ai_content(OrDefault(d.company, DefaultCompany), budget,
             AIManagementFee(budget), AIAdSpend(budget), ai, d.services)
    ELSE TemplateDocument(d, budget)

(***************************************************************************)
(* Inputs of extract_section: AI content blobs built from lexemes          *)
(***************************************************************************)
\* a paragraph of 50 characters: <p> + 43 x + </p>
LongPara ==
    <<"<", "p", ">">> \o [i \in 1..43 |-> "x"] \o <<"<", "/", "p", ">">>

ContentLexemes == {
    <<"<", "!", "-", "-", " ", "S", "E", "C", "T", "I", "O", "N", ":", " ", "I", "N", "V", "E", "S", "T", "M", "E", "N", "T", " ", "-", "-", ">">>,
    <<"<", "!", "-", "-", " ", "S", "E", "C", "T", "I", "O", "N", ":", " ", "N", "E", "X", "T", " ", "S", "T", "E", "P", "S", " ", "-", "-", ">">>,
    <<"<", "!", "-", "-", " ", "N", "E", "X", "T", " ", "S", "T", "E", "P", "S", " ", "-", "-", ">">>,
    <<"<", "h", "3", ">", "I", "n", "v", "e", "s", "t", "m", "e", "n", "t", "<", "/", "h", "3", ">", "\n">>,
    <<"<", "p", ">", "F", "e", "e", "<", "/", "p", ">">>,
    <<"<", "!", "-", "-", " ", "a", ">", "b", " ", "-", "-", ">">>,
    <<"N", "e", "x", "t", " ", "S", "t", "e", "p", "s", " ">>,
    LongPara }

SectionNames == {
    <<"I", "N", "V", "E", "S", "T", "M", "E", "N", "T">>,
    <<"N", "E", "X", "T", " ", "S", "T", "E", "P", "S">>,
    <<"N", "E", "X", "T", "_", "S", "T", "E", "P", "S">> }

\* every concatenation of at most n lexemes
LexemeStrings(lexemes, n) ==
    { Concat(p) : p \in UNION { [1..k -> lexemes] : k \in 0..n } }

Contents == LexemeStrings(ContentLexemes, MaxParts) \cup {NoneVal}

InitExtract ==
    /\ content \in Contents
    /\ start_marker \in SectionNames
    /\ end_marker \in SectionNames \cup {NoneVal}
    /\ section = Unset

\* one call extract_section(content, start_marker, end_marker)
ExtractSection ==
    /\ section = Unset
    /\ section' = extract_section(content, start_marker, end_marker)
    /\ UNCHANGED <<content, start_marker, end_marker>>
    /\ UNCHANGED notEx

NextExtract == ExtractSection

InitSpecExtract == InitExtract /\ InitParseIdle /\ InitWebIdle /\ InitAsmIdle /\ InitStagedIdle /\ InitApiIdle /\ InitAuthIdle /\ InitBatchIdle

SpecExtract == InitSpecExtract /\ [][NextExtract]_vars

\* C4: extract_section is total - for every content (null, empty, without
\* markers, made only of markers, comments or headings), every section name
\* and every next-section name (none included) the call returns a string
\* that is not empty.
ExtractTotal ==
    section # Unset => (section # <<>> /\ section # NoneVal /\ Len(section) >= 1)

\* a call on a content made only of markers has returned the placeholder
ExtractTotalWitness ==
    /\ content = <<"<", "!", "-", "-", " ", "S", "E", "C", "T", "I", "O", "N", ":", " ", "I", "N", "V", "E", "S", "T", "M", "E", "N", "T", " ", "-", "-", ">", "<", "!", "-", "-", " ", "S", "E", "C", "T", "I", "O", "N", ":", " ", "N", "E", "X", "T", " ", "S", "T", "E", "P", "S", " ", "-", "-", ">">>
    /\ start_marker = <<"I", "N", "V", "E", "S", "T", "M", "E", "N", "T">>
    /\ section = NOT_AVAILABLE
(***************************************************************************)
(* Inputs of parse_client_text: pasted texts built from lines              *)
(***************************************************************************)
\* number of lines of a pasted text
MaxLines == 3

BudgetFields == {
    <<"$", "4", ",", "0", "0", "0", "/", "m", "o", "n", "t", "h">>,
    <<"2", "5", "0", "0">>,
    <<"$", "5", "0", "0">>,
    <<"T", "B", "D">>,
    <<"T", "B", "D", ",", " ", "m", "a", "y", "b", "e", " ", "$", "3", ",", "0", "0", "0">> }

BudgetLines == { <<"B", "u", "d", "g", "e", "t", ":", " ">> \o b : b \in BudgetFields } \cup { <<"B", "u", "d", "g", "e", "t", ":">> }

OtherLines == {
    <<"C", "o", "m", "p", "a", "n", "y", ":", " ", "A", "c", "m", "e", " ", "R", "o", "o", "f", "i", "n", "g">>,
    <<"C", "h", "a", "l", "l", "e", "n", "g", "e", "s", ":">>,
    <<"-", " ", "L", "o", "w", " ", "o", "n", "l", "i", "n", "e", " ", "v", "i", "s", "i", "b", "i", "l", "i", "t", "y">>,
    <<"G", "o", "a", "l", "s", ":">>,
    <<"M", "o", "r", "e", " ", "l", "e", "a", "d", "s">>,
    <<"S", "e", "r", "v", "i", "c", "e", "s", ":", " ", "G", "o", "o", "g", "l", "e", " ", "A", "d", "s", ",", " ", "S", "E", "O">>,
    <<"S", "e", "r", "v", "i", "c", "e", "s", ":", " ", "W", "e", "b", " ", "d", "e", "s", "i", "g", "n">> }

TextLines == BudgetLines \cup OtherLines

\* '\n'.join(ls)
RECURSIVE JoinLines(_)
JoinLines(ls) ==
    IF ls = <<>> THEN <<>>
    ELSE IF Len(ls) = 1 THEN ls[1]
    ELSE ls[1] \o <<"\n">> \o JoinLines(Tail(ls))

Texts == { JoinLines(p) : p \in UNION { [1..k -> TextLines] : k \in 1..MaxLines } }

InitParse ==
    /\ text \in Texts
    /\ lines = SplitLines(text)
    /\ data = EmptyData
    /\ current_section = "none"
    /\ budget_num = -1
    /\ parse_pc = "scan"

\* one iteration of `for line in lines`
ParseLine ==
    /\ parse_pc = "scan"
    /\ lines # <<>>
    /\ LET r == ParseLineStep(data, current_section, Head(lines))
       IN  /\ data' = r.data
           /\ current_section' = r.current_section
    /\ lines' = Tail(lines)
    /\ UNCHANGED <<text, budget_num, parse_pc>>
    /\ UNCHANGED notParse

\* the code after the loop: budget number and default services
ParseFinish ==
    /\ parse_pc = "scan"
    /\ lines = <<>>
    /\ LET b == BudgetNum(data.budget)
       IN  /\ budget_num' = b.budget_num
           /\ parse_pc' = IF b.raised THEN "raised" ELSE "done"
           /\ data' = IF b.raised THEN data ELSE WithDefaultServices(data)
    /\ UNCHANGED <<text, lines, current_section>>
    /\ UNCHANGED notParse

NextParse == ParseLine \/ ParseFinish

InitSpecParse == InitParse /\ InitExIdle /\ InitWebIdle /\ InitAsmIdle /\ InitStagedIdle /\ InitApiIdle /\ InitAuthIdle /\ InitBatchIdle

SpecParse == InitSpecParse /\ [][NextParse]_vars

\* C3: parse_client_text never fails - for every input text it returns a
\* record with every field and an integer budget_num, and raises no error.
ParseNeverFails ==
    /\ parse_pc # "raised"
    /\ parse_pc = "done" =>
          /\ DOMAIN data = DOMAIN EmptyData
          /\ budget_num \in Nat

\* the budget number the claim describes: the digits (commas stripped) of the
\* first run of digits and thousands-commas that starts with a digit, and
\* 2500 when the field is empty or holds no such run
ClaimBudgetNum(b) ==
    LET cand == {i \in 1..Len(b) : b[i] \in DigitSet}
    IN  IF cand = {} THEN 2500
        ELSE IntOf(StripCommas(RunOf(SubSeq(b, MinOf(cand), Len(b)), DigitOrComma)))

\* C9: for every budget field value, budget_num is the integer formed by the
\* digits of the first match of an optional '$' followed by digits and
\* optional thousands-commas, and exactly 2500 when the field is empty or
\* has no match.
BudgetExtraction ==
    (parse_pc # "scan") =>
        /\ parse_pc = "done"
        /\ budget_num = ClaimBudgetNum(data.budget)

(***************************************************************************)
(* POST /api/generate-from-text (app.py)                                   *)
(***************************************************************************)
RECURSIVE DigitsOfNat(_)
\* str(n) for n >= 0
DigitsOfNat(n) ==
    IF n < 10 THEN <<Digits[n + 1]>>
    ELSE DigitsOfNat(n \div 10) \o <<Digits[(n % 10) + 1]>>

\* f"{n:,}" for n >= 0
FormatThousands(n) ==
    LET ds == DigitsOfNat(n)
    IN  Concat([i \in 1..Len(ds) |->
                  IF i > 1 /\ (Len(ds) - i + 1) % 3 = 0
                  THEN <<",", ds[i]>> ELSE <<ds[i]>>])

\* largest monthly budget a pasted text names
MaxBudget == 6000

\* budgets around which the pricing rules change
BudgetMarks == {0, 499, 500, 899, 1500, 1798, 2000, 2500, 2697, 3000, 4000, 5000, 6000}

WebBudgets == {n \in 0..MaxBudget : \E k \in BudgetMarks : n \in (k - 1)..(k + 1)}

WebBudgetLines ==
    { <<"B", "u", "d", "g", "e", "t", ":", " ", "$">> \o FormatThousands(n) \o <<"/", "m", "o", "n", "t", "h">> : n \in WebBudgets }
    \cup { <<"B", "u", "d", "g", "e", "t", ":", " ", "T", "B", "D", ",", " ", "m", "a", "y", "b", "e", " ", "$", "3", ",", "0", "0", "0">> }

WebServiceLines == {
    <<"S", "e", "r", "v", "i", "c", "e", "s", ":", " ", "G", "o", "o", "g", "l", "e", " ", "A", "d", "s", ",", " ", "S", "E", "O">>,
    <<"S", "e", "r", "v", "i", "c", "e", "s", ":", " ", "S", "E", "O">>,
    <<"S", "e", "r", "v", "i", "c", "e", "s", ":", " ", "F", "a", "c", "e", "b", "o", "o", "k", ";", " ", "L", "i", "n", "k", "e", "d", "I", "n">>,
    <<"S", "e", "r", "v", "i", "c", "e", "s", ":", " ", "W", "e", "b", " ", "d", "e", "s", "i", "g", "n">>,
    <<"S", "e", "r", "v", "i", "c", "e", "s", ":", " ", "O", "r", "g", "a", "n", "i", "c", " ", "g", "r", "o", "w", "t", "h">> }

WebCompanyLines == { <<"C", "o", "m", "p", "a", "n", "y", ":", " ", "A", "c", "m", "e", " ", "R", "o", "o", "f", "i", "n", "g">> }

\* the eight-line example text
AcmeText ==
    JoinLines(<< <<"C", "o", "m", "p", "a", "n", "y", ":", " ", "A", "c", "m", "e", " ", "R", "o", "o", "f", "i", "n", "g">>,
                 <<"I", "n", "d", "u", "s", "t", "r", "y", ":", " ", "R", "o", "o", "f", "i", "n", "g">>,
                 <<"B", "u", "d", "g", "e", "t", ":", " ", "$", "4", ",", "0", "0", "0", "/", "m", "o", "n", "t", "h">>,
                 <<"C", "h", "a", "l", "l", "e", "n", "g", "e", "s", ":">>,
                 <<"-", " ", "L", "o", "w", " ", "o", "n", "l", "i", "n", "e", " ", "v", "i", "s", "i", "b", "i", "l", "i", "t", "y">>,
                 <<"-", " ", "O", "u", "t", "d", "a", "t", "e", "d", " ", "w", "e", "b", "s", "i", "t", "e">>,
                 <<"G", "o", "a", "l", "s", ":">>,
                 <<"-", " ", "M", "o", "r", "e", " ", "l", "e", "a", "d", "s">>,
                 <<"S", "e", "r", "v", "i", "c", "e", "s", ":", " ", "G", "o", "o", "g", "l", "e", " ", "A", "d", "s", ",", " ", "S", "E", "O">> >>)

\* a pasted text: at most one company, one budget and one services line, or
\* the example text
WebTexts ==
    { JoinLines(SelectSeq(<<c, b, s>>, LAMBDA l : l # <<>>)) :
        c \in WebCompanyLines \cup {<<>>},
        b \in WebBudgetLines \cup {<<>>},
        s \in WebServiceLines \cup {<<>>} }
    \cup {AcmeText}

\* '<!-- SECTION: NAME -->' + a paragraph
MarkedSection(name) ==
    SECTION_PREFIX \o name \o <<" ", "-", "-", ">">> \o <<"<", "p", ">", "T", "e", "x", "t", "<", "/", "p", ">">>

\* the seven sections, each after its strict marker, with the given bodies
MarkedReply(bodies) ==
    Concat([i \in 1..7 |-> SECTION_PREFIX \o AISectionNames[i] \o <<" ", "-", "-", ">">> \o bodies[i]])

\* bodies that name other sections, carry comments and start with headings
CrossReferenceBodies == <<
    <<"<", "p", ">", "S", "u", "m", "m", "a", "r", "y", ";", " ", "s", "e", "e", " ", "N", "e", "x", "t", " ", "S", "t", "e", "p", "s", " ", "a", "n", "d", " ", "I", "n", "v", "e", "s", "t", "m", "e", "n", "t", ".", "<", "/", "p", ">", "<", "!", "-", "-", " ", "I", "N", "V", "E", "S", "T", "M", "E", "N", "T", " ", "-", "-", ">">>,
    <<"<", "h", "2", ">", "U", "n", "d", "e", "r", "s", "t", "a", "n", "d", "i", "n", "g", " ", "Y", "o", "u", "r", " ", "B", "u", "s", "i", "n", "e", "s", "s", "<", "/", "h", "2", ">", "\n", "<", "p", ">", "Y", "o", "u", "r", " ", "g", "o", "a", "l", "s", " ", "m", "a", "t", "t", "e", "r", "<", "/", "p", ">">>,
    <<"<", "p", ">", "G", "o", "a", "l", "s", "<", "/", "p", ">", "<", "!", "-", "-", " ", "N", "E", "X", "T", " ", "S", "T", "E", "P", "S", " ", "-", "-", ">">>,
    <<"<", "h", "3", ">", "O", "u", "r", " ", "S", "t", "r", "a", "t", "e", "g", "y", "<", "/", "h", "3", ">", "<", "p", ">", "I", "m", "p", "l", "e", "m", "e", "n", "t", "a", "t", "i", "o", "n", " ", "f", "i", "r", "s", "t", "<", "/", "p", ">">>,
    <<"<", "p", ">", "W", "e", "e", "k", " ", "1", "<", "/", "p", ">">>,
    <<"<", "h", "3", ">", "I", "n", "v", "e", "s", "t", "m", "e", "n", "t", "<", "/", "h", "3", ">", "\n", "<", "p", ">", "F", "e", "e", "<", "/", "p", ">">>,
    <<"<", "p", ">", "C", "a", "l", "l", " ", "u", "s", "<", "/", "p", ">">> >>

\* a reply whose sections are out of the canonical order
SwappedReply ==
    SECTION_PREFIX \o AISectionNames[2] \o <<" ", "-", "-", ">", "<", "p", ">", "B", "u", "s", "i", "n", "e", "s", "s", "<", "/", "p", ">">>
    \o SECTION_PREFIX \o AISectionNames[1] \o <<" ", "-", "-", ">", "<", "p", ">", "S", "u", "m", "m", "a", "r", "y", "<", "/", "p", ">">>
    \o Concat([i \in 1..5 |-> MarkedSection(AISectionNames[i + 2])])

\* what the text-generation service may answer
AIReplies == {
    MarkedReply(CrossReferenceBodies),
    SwappedReply,
    Concat([i \in 1..7 |-> MarkedSection(AISectionNames[i])]),
    Concat([i \in 1..3 |-> MarkedSection(AISectionNames[i])]),
    <<"<", "!", "-", "-", " ", "S", "E", "C", "T", "I", "O", "N", ":", " ", "S", "U", "M", "M", "A", "R", "Y", " ", "-", "-", ">", "<", "p", ">", "T", "e", "x", "t", "<", "/", "p", ">">>,
    <<"<", "p", ">", "H", "e", "r", "e", " ", "i", "s", " ", "y", "o", "u", "r", " ", "p", "r", "o", "p", "o", "s", "a", "l", ".", "<", "/", "p", ">">>,
    <<"<", "h", "3", ">", "E", "x", "e", "c", "u", "t", "i", "v", "e", " ", "S", "u", "m", "m", "a", "r", "y", "<", "/", "h", "3", ">", "<", "p", ">", "T", "e", "x", "t", "<", "/", "p", ">", "<", "h", "3", ">", "N", "e", "x", "t", " ", "S", "t", "e", "p", "s", "<", "/", "h", "3", ">", "<", "p", ">", "C", "a", "l", "l", " ", "u", "s", "<", "/", "p", ">">>,
    <<>> }

InitWeb ==
    /\ req_text \in WebTexts
    /\ has_anthropic \in BOOLEAN
    /\ api_key_set \in BOOLEAN
    /\ web_pc = "received"
    /\ parsed = NoneVal
    /\ ai_content = NoneVal
    /\ svc_outcome = "not_called"
    /\ svc_calls = 0
    /\ document = NoDocument
    /\ response = NoResponse
    /\ prompt = NoPrompt

\* api_generate_from_text up to the call of generate_ai_proposal: the empty
\* text is answered 400, an exception of the parser 500
ApiGenerateFromText ==
    /\ web_pc = "received"
    /\ IF req_text = <<>>
       THEN /\ response' = [success |-> FALSE, status |-> 400]
            /\ web_pc' = "responded"
            /\ UNCHANGED parsed
       ELSE LET p == parse_client_text(req_text)
            IN  IF p.raised
                THEN /\ response' = [success |-> FALSE, status |-> 500]
                     /\ web_pc' = "responded"
                     /\ UNCHANGED parsed
                ELSE /\ parsed' = p
                     /\ web_pc' = "generate_ai"
                     /\ UNCHANGED response
    /\ UNCHANGED <<req_text, has_anthropic, api_key_set, ai_content, svc_outcome,
                   svc_calls, document, prompt>>
    /\ UNCHANGED notWeb

\* generate_ai_proposal without the client library or without the API key
GenerateAiNotConfigured ==
    /\ web_pc = "generate_ai"
    /\ ~ has_anthropic \/ ~ api_key_set
    /\ ai_content' = NoneVal
    /\ svc_outcome' = IF ~ has_anthropic THEN "no_library" ELSE "no_api_key"
    /\ web_pc' = "build"
    /\ UNCHANGED <<req_text, has_anthropic, api_key_set, parsed, svc_calls,
                   document, response, prompt>>
    /\ UNCHANGED notWeb

\* a failed call that is tried again, three calls at most
GenerateAiRaisesRetried ==
    /\ web_pc = "generate_ai"
    /\ has_anthropic /\ api_key_set
    /\ svc_calls' = svc_calls + 1
    /\ ai_content' = NoneVal
    /\ svc_outcome' = "raised"
    /\ web_pc' = IF svc_calls < 2 THEN "generate_ai" ELSE "build"
    /\ prompt' = BuildPrompt(parsed.budget_num)
    /\ UNCHANGED <<req_text, has_anthropic, api_key_set, parsed, document, response>>
    /\ UNCHANGED notWeb

\* generate_ai_proposal: client.messages.create(...) raises
GenerateAiRaises ==
    /\ web_pc = "generate_ai"
    /\ has_anthropic /\ api_key_set
    /\ svc_calls' = svc_calls + 1
    /\ ai_content' = NoneVal
    /\ svc_outcome' = "raised"
    /\ web_pc' = "build"
    /\ prompt' = BuildPrompt(parsed.budget_num)
    /\ UNCHANGED <<req_text, has_anthropic, api_key_set, parsed, document, response>>
    /\ UNCHANGED notWeb

\* generate_ai_proposal: client.messages.create(...) returns a text
GenerateAiReturns ==
    /\ web_pc = "generate_ai"
    /\ has_anthropic /\ api_key_set
    /\ svc_calls' = svc_calls + 1
    /\ \E reply \in AIReplies : ai_content' = reply
    /\ svc_outcome' = "replied"
    /\ web_pc' = "build"
    /\ prompt' = BuildPrompt(parsed.budget_num)
    /\ UNCHANGED <<req_text, has_anthropic, api_key_set, parsed, document, response>>
    /\ UNCHANGED notWeb

\* the rest of generate_proposal_from_text and the success envelope
BuildProposal ==
    /\ web_pc = "build"
    /\ document' = ProposalDocument(parsed.data, parsed.budget_num, ai_content)
    /\ response' = [success |-> TRUE, status |-> 200]
    /\ web_pc' = "responded"
    /\ UNCHANGED <<req_text, has_anthropic, api_key_set, parsed, ai_content,
                   svc_outcome, svc_calls, prompt>>
    /\ UNCHANGED notWeb

NextWeb ==
    \/ ApiGenerateFromText
    \/ GenerateAiNotConfigured
    \/ GenerateAiRaises
    \/ GenerateAiReturns
    \/ BuildProposal

InitSpecWeb == InitWeb /\ InitExIdle /\ InitParseIdle /\ InitAsmIdle /\ InitStagedIdle /\ InitApiIdle /\ InitAuthIdle /\ InitBatchIdle

SpecWeb == InitSpecWeb /\ [][NextWeb]_vars

\* the request was answered with a document
Answered == web_pc = "responded" /\ document # NoDocument

\* C1: template-only path - for every parsed budget_num >= 0 the management
\* fee and the ad spend shown in the document sum to the total monthly
\* figure shown in the document (the budget).
TemplatePricingInvariant ==
    (Answered /\ document.kind = "template") =>
        document.management_fee + document.ad_spend = document.total_monthly

\* C2: AI-content path - for every budget and every parsed service list the
\* Total Monthly Investment equals management_fee + ad_spend as computed by
\* generate_proposal_from_text, and so the monthly budget shown on the cover.
AIPricingInvariant ==
    (Answered /\ document.kind = "ai") =>
        /\ document.total_monthly = document.management_fee + document.ad_spend
        /\ document.total_monthly = document.budget_shown

\* content generation was unavailable while the request was handled
ServiceUnavailable ==
    \/ svc_outcome \in {"no_library", "no_api_key", "raised"}
    \/ (svc_outcome = "not_called" /\ (~ has_anthropic \/ ~ api_key_set))

\* C5: service unavailability is non-fatal - whenever content generation is
\* unavailable (library missing, API key not configured, or the call raises)
\* generate_ai_proposal reports no content, generate_proposal_from_text
\* returns the template-only document and /api/generate-from-text answers
\* with the success envelope rather than an error.
UnavailabilityNonFatal ==
    /\ (web_pc = "build" /\ svc_outcome # "replied") => ai_content = NoneVal
    /\ (web_pc = "responded" /\ req_text # <<>> /\ ServiceUnavailable) =>
          /\ response.success
          /\ document # NoDocument
          /\ document.kind = "template"

\* the sections of a document that hold real content
FilledSections(doc) ==
    { doc.sections[i].role : i \in
        { j \in 1..Len(doc.sections) :
            /\ doc.sections[j].body # <<>>
            /\ ~ Contains(doc.sections[j].body, IN_PROGRESS)
            /\ ~ Contains(doc.sections[j].body, NOT_AVAILABLE) } }

\* C6: fallback completeness - with the Content Generation Client forced to
\* fail, the document returned by generate_proposal_from_text contains every
\* required section, each filled with real content, and neither placeholder.
FallbackComplete ==
    (web_pc = "responded" /\ req_text # <<>> /\ svc_outcome = "raised") =>
        /\ document # NoDocument
        /\ RequiredSections \subseteq FilledSections(document)
        /\ \A i \in 1..Len(document.sections) :
              /\ ~ Contains(document.sections[i].body, IN_PROGRESS)
              /\ ~ Contains(document.sections[i].body, NOT_AVAILABLE)

\* C10: service-default property - in every generation path that derives the
\* service flags at least one of has_google_ads, has_seo, has_social is true;
\* when no service string matches a google/seo/social keyword, both
\* has_google_ads and has_seo are true.
ServiceDefault ==
    Answered =>
        /\ document.flags.has_google_ads \/ document.flags.has_seo
              \/ document.flags.has_social
        /\ (~ AnyService(parsed.data.services,
                 GoogleKeysTemplate \cup SeoKeysTemplate \cup SocialKeys)) =>
              (document.flags.has_google_ads /\ document.flags.has_seo)

(***************************************************************************)
(* ProposalAssembler.assemble (assembler.py)                               *)
(***************************************************************************)
RECURSIVE StrReplace(_, _, _)
\* s.replace(old, new) for a non-empty old
StrReplace(s, old, new) ==
    LET i == Find(s, old, 0)
    IN  IF i = -1 THEN s
        ELSE Slice(s, 0, i) \o new
             \o StrReplace(Slice(s, i + Len(old), Len(s)), old, new)

\* a lookup that yields the empty string for an absent key
GetOrEmpty(d, key, default) == IF key \in DOMAIN d THEN d[key] ELSE <<>>

\* d.get(key, default) on a map
Get(d, key, default) == IF key \in DOMAIN d THEN d[key] ELSE default

\* a two-digit field of strftime
TwoDigits(n) == IF n < 10 THEN <<"0">> \o DigitsOfNat(n) ELSE DigitsOfNat(n)

\* datetime.now().strftime('%Y-%m-%d')
FormatDate(now) ==
    DigitsOfNat(now.year) \o <<"-">> \o TwoDigits(now.month) \o <<"-">> \o TwoDigits(now.day)

\* the placeholder tokens with their metadata key and default, in the order
\* assemble replaces them
MetaTokens == <<
    [ token |-> <<"{", "{", "C", "L", "I", "E", "N", "T", "}", "}">>, key |-> "client_name",
      default |-> <<"C", "l", "i", "e", "n", "t", " ", "N", "a", "m", "e">> ],
    [ token |-> <<"{", "{", "P", "R", "O", "P", "O", "S", "A", "L", "_", "T", "Y", "P", "E", "}", "}">>, key |-> "proposal_type",
      default |-> <<"D", "i", "g", "i", "t", "a", "l", " ", "M", "a", "r", "k", "e", "t", "i", "n", "g", " ", "P", "r", "o", "p", "o", "s", "a", "l">> ],
    [ token |-> <<"{", "{", "A", "N", "A", "L", "Y", "S", "T", "}", "}">>, key |-> "analyst",
      default |-> <<"T", "h", "e", " ", "M", "e", "d", "i", "a", "f", "o", "r", "c", "e", " ", "T", "e", "a", "m">> ] >>

PROPOSAL_DATE_TOKEN ==
    <<"{", "{", "P", "R", "O", "P", "O", "S", "A", "L", "_", "D", "A", "T", "E", "}", "}">>

YEAR_TOKEN ==
    <<"{", "{", "Y", "E", "A", "R", "}", "}">>

\* the slot markers with their fragment key and default, in the order
\* assemble replaces them
SlotMarkers == <<
    [ token |-> <<"<", "!", "-", "-", " ", "S", "L", "O", "T", ":", " ", "E", "X", "E", "C", "U", "T", "I", "V", "E", "_", "S", "U", "M", "M", "A", "R", "Y", " ", "-", "-", ">">>, key |-> "executive_summary",
      default |-> <<"<", "p", ">", "E", "x", "e", "c", "u", "t", "i", "v", "e", " ", "s", "u", "m", "m", "a", "r", "y", " ", "n", "o", "t", " ", "g", "e", "n", "e", "r", "a", "t", "e", "d", "<", "/", "p", ">">> ],
    [ token |-> <<"<", "!", "-", "-", " ", "S", "L", "O", "T", ":", " ", "Y", "O", "U", "R", "_", "B", "U", "S", "I", "N", "E", "S", "S", " ", "-", "-", ">">>, key |-> "your_business",
      default |-> <<"<", "p", ">", "Y", "o", "u", "r", " ", "b", "u", "s", "i", "n", "e", "s", "s", " ", "s", "e", "c", "t", "i", "o", "n", " ", "n", "o", "t", " ", "g", "e", "n", "e", "r", "a", "t", "e", "d", "<", "/", "p", ">">> ],
    [ token |-> <<"<", "!", "-", "-", " ", "S", "L", "O", "T", ":", " ", "C", "O", "M", "P", "E", "T", "I", "T", "I", "V", "E", "_", "A", "N", "A", "L", "Y", "S", "I", "S", " ", "-", "-", ">">>, key |-> "competitive_analysis",
      default |-> <<"<", "p", ">", "C", "o", "m", "p", "e", "t", "i", "t", "i", "v", "e", " ", "a", "n", "a", "l", "y", "s", "i", "s", " ", "n", "o", "t", " ", "g", "e", "n", "e", "r", "a", "t", "e", "d", "<", "/", "p", ">">> ],
    [ token |-> <<"<", "!", "-", "-", " ", "S", "L", "O", "T", ":", " ", "S", "T", "R", "A", "T", "E", "G", "Y", " ", "-", "-", ">">>, key |-> "strategy",
      default |-> <<"<", "p", ">", "S", "t", "r", "a", "t", "e", "g", "y", " ", "s", "e", "c", "t", "i", "o", "n", " ", "n", "o", "t", " ", "g", "e", "n", "e", "r", "a", "t", "e", "d", "<", "/", "p", ">">> ],
    [ token |-> <<"<", "!", "-", "-", " ", "S", "L", "O", "T", ":", " ", "S", "U", "C", "C", "E", "S", "S", "_", "M", "E", "T", "R", "I", "C", "S", " ", "-", "-", ">">>, key |-> "success_metrics",
      default |-> <<"<", "p", ">", "S", "u", "c", "c", "e", "s", "s", " ", "m", "e", "t", "r", "i", "c", "s", " ", "n", "o", "t", " ", "g", "e", "n", "e", "r", "a", "t", "e", "d", "<", "/", "p", ">">> ],
    [ token |-> <<"<", "!", "-", "-", " ", "S", "L", "O", "T", ":", " ", "T", "I", "M", "E", "L", "I", "N", "E", " ", "-", "-", ">">>, key |-> "timeline",
      default |-> <<"<", "p", ">", "T", "i", "m", "e", "l", "i", "n", "e", " ", "n", "o", "t", " ", "g", "e", "n", "e", "r", "a", "t", "e", "d", "<", "/", "p", ">">> ],
    [ token |-> <<"<", "!", "-", "-", " ", "S", "L", "O", "T", ":", " ", "I", "N", "V", "E", "S", "T", "M", "E", "N", "T", " ", "-", "-", ">">>, key |-> "investment",
      default |-> <<"<", "p", ">", "I", "n", "v", "e", "s", "t", "m", "e", "n", "t", " ", "s", "e", "c", "t", "i", "o", "n", " ", "n", "o", "t", " ", "g", "e", "n", "e", "r", "a", "t", "e", "d", "<", "/", "p", ">">> ],
    [ token |-> <<"<", "!", "-", "-", " ", "S", "L", "O", "T", ":", " ", "N", "E", "X", "T", "_", "S", "T", "E", "P", "S", " ", "-", "-", ">">>, key |-> "next_steps",
      default |-> <<"<", "p", ">", "N", "e", "x", "t", " ", "s", "t", "e", "p", "s", " ", "n", "o", "t", " ", "g", "e", "n", "e", "r", "a", "t", "e", "d", "<", "/", "p", ">">> ] >>

CSS_LINK ==
    <<"<", "l", "i", "n", "k", " ", "r", "e", "l", "=", "\"", "s", "t", "y", "l", "e", "s", "h", "e", "e", "t", "\"", " ", "h", "r", "e", "f", "=", "\"", "p", "r", "o", "p", "o", "s", "a", "l", ".", "c", "s", "s", "\"", ">">>

RECURSIVE ReplaceTokens(_, _, _)
\* the chain html = html.replace(token, d.get(key, default)) over the tokens
ReplaceTokens(html, tokens, d) ==
    IF tokens = <<>> THEN html
    ELSE ReplaceTokens(
            StrReplace(html, Head(tokens).token,
                       Get(d, Head(tokens).key, Head(tokens).default)),
            Tail(tokens), d)

\* the value that replaces {{YEAR}}
YearValue(now) == DigitsOfNat(now.year)

\* the default that replaces {{PROPOSAL_DATE}} when metadata has no date
DefaultDate(now) == FormatDate(now)

\* ProposalAssembler.assemble(data) at the time `now`
assemble(template, css, d, now) ==
    LET metadata == Get(d, "metadata", <<>>)
        h1 == ReplaceTokens(template, MetaTokens, metadata)
        h2 == StrReplace(h1, PROPOSAL_DATE_TOKEN,
                         Get(metadata, "proposal_date", DefaultDate(now)))
        h3 == StrReplace(h2, YEAR_TOKEN, YearValue(now))
        h4 == ReplaceTokens(h3, SlotMarkers, d)
    IN  StrReplace(h4, CSS_LINK, <<"<", "s", "t", "y", "l", "e", ">">> \o css \o <<"<", "/", "s", "t", "y", "l", "e", ">">>)

(***************************************************************************)
(* Inputs of assemble                                                      *)
(***************************************************************************)
\* number of lexemes a template is built from
MaxTemplateParts == 2

TemplateLexemes == {
    <<"{", "{", "C", "L", "I", "E", "N", "T", "}", "}">>,
    <<"{", "{", "P", "R", "O", "P", "O", "S", "A", "L", "_", "D", "A", "T", "E", "}", "}">>,
    <<"{", "{", "Y", "E", "A", "R", "}", "}">>,
    <<"<", "!", "-", "-", " ", "S", "L", "O", "T", ":", " ", "E", "X", "E", "C", "U", "T", "I", "V", "E", "_", "S", "U", "M", "M", "A", "R", "Y", " ", "-", "-", ">">>,
    <<"<", "!", "-", "-", " ", "S", "L", "O", "T", ":", " ", "N", "E", "X", "T", "_", "S", "T", "E", "P", "S", " ", "-", "-", ">">>,
    CSS_LINK,
    <<"<", "h", "1", ">", "P", "r", "o", "p", "o", "s", "a", "l", "<", "/", "h", "1", ">">> }

Templates == LexemeStrings(TemplateLexemes, MaxTemplateParts)

\* every map from a subset of the keys to a value of its set
PartialMaps(values) ==
    UNION { { f \in [K -> UNION {values[k] : k \in K}] : \A k \in K : f[k] \in values[k] }
            : K \in SUBSET DOMAIN values }

MetadataValues ==
    [ client_name   |-> { <<"A", "c", "m", "e">>, <<"{", "{", "Y", "E", "A", "R", "}", "}", " ", "L", "t", "d">> },
      proposal_date |-> { <<"2", "0", "2", "5", "-", "1", "1", "-", "0", "4">> } ]

FragmentValues ==
    [ executive_summary |-> { <<"<", "p", ">", "S", "u", "m", "m", "a", "r", "y", "<", "/", "p", ">">>, <<"<", "!", "-", "-", " ", "S", "L", "O", "T", ":", " ", "N", "E", "X", "T", "_", "S", "T", "E", "P", "S", " ", "-", "-", ">">> },
      next_steps        |-> { <<"<", "p", ">", "C", "a", "l", "l", " ", "u", "s", "<", "/", "p", ">">> } ]

\* the data maps: fragments, with or without a 'metadata' entry
DataMaps ==
    PartialMaps(FragmentValues)
    \cup { f @@ [metadata |-> md] : f \in PartialMaps(FragmentValues),
                                    md \in PartialMaps(MetadataValues) }

\* the dates the calls are made on
ClockDates == <<
    [year |-> 2025, month |-> 12, day |-> 31],
    [year |-> 2026, month |-> 1, day |-> 1] >>

\* number of calls of assemble that are compared
MaxCalls == 2

InitAssemble ==
    /\ asm_template \in Templates
    /\ asm_css = <<"p", "{", "m", "a", "r", "g", "i", "n", ":", "0", "}">>
    /\ asm_data \in DataMaps
    /\ clock = 1
    /\ outputs = <<>>
    /\ example_output = Unset

\* one call of ProposalAssembler.assemble(data)
Assemble ==
    /\ Len(outputs) < MaxCalls
    /\ outputs' = Append(outputs, assemble(asm_template, asm_css, asm_data, ClockDates[clock]))
    /\ UNCHANGED <<asm_template, asm_css, asm_data, clock, example_output>>
    /\ UNCHANGED notAsm

\* time passes between two calls
Tick ==
    /\ clock < Len(ClockDates)
    /\ clock' = clock + 1
    /\ UNCHANGED <<asm_template, asm_css, asm_data, outputs, example_output>>
    /\ UNCHANGED notAsm

NextAssemble == Assemble \/ Tick

InitSpecAssemble == InitAssemble /\ InitExIdle /\ InitParseIdle /\ InitWebIdle /\ InitStagedIdle /\ InitApiIdle /\ InitAuthIdle /\ InitBatchIdle

SpecAssemble == InitSpecAssemble /\ [][NextAssemble]_vars

\* C7: assembly is deterministic - for every fixed template, css and data
\* map (proposal_date absent included) two calls of assemble made at any two
\* times return byte-identical output.
AssembleDeterministic ==
    \A i, j \in 1..Len(outputs) : outputs[i] = outputs[j]

(***************************************************************************)
(* PentestReportGenerator: the staged generator (generator.py)             *)
(***************************************************************************)
\* what a response of the service holds once code fences are set aside:
\* a JSON document of one of the JSON types, or text that is not JSON
JsonKinds == {"object", "array", "string", "number", "boolean", "null", "invalid"}

\* a response: whether it contains ```, whether the fenced-block pattern
\* ```(?:json)?\s*(\{.*\})\s*``` finds a match, and what json.loads makes of
\* the text it is given: the whole response, or group 1 of the match (which
\* starts with '{' and ends with '}': an object, or not JSON)
StageResponses ==
    { [fenced |-> FALSE, block |-> FALSE, json |-> k] : k \in JsonKinds }
    \cup { [fenced |-> TRUE, block |-> TRUE, json |-> k] : k \in {"object", "invalid"} }
    \cup { [fenced |-> TRUE, block |-> FALSE, json |-> k] :
               k \in {"object", "array", "string", "invalid"} }

\* the Python type of json.loads(text), or "raises"
JsonLoads(kind) ==
    CASE kind = "object"  -> "dict"
      [] kind = "array"   -> "list"
      [] kind = "string"  -> "str"
      [] kind = "number"  -> "int"
      [] kind = "boolean" -> "bool"
      [] kind = "null"    -> "NoneType"
      [] OTHER            -> "raises"

\* stage_a_outline: json_match is the response, or group 1 of the fenced
\* block, or None (which json.loads rejects) when the response has ``` but
\* no matching block
OutlineParse(r) ==
    IF r.fenced /\ ~ r.block THEN "raises" ELSE JsonLoads(r.json)

\* stage_b_risk_overview: the response is replaced by group 1 only when the
\* fenced block matches
RiskParse(r) == JsonLoads(r.json)

\* the types len() accepts
Sized == {"dict", "list", "str"}

\* the types that have a .get method
HasGet == {"dict"}

FallbackOutline == [type |-> "dict", source |-> "fallback"]

NoOutline == [type |-> "unset", source |-> "unset"]

\* the value stage_a_outline returns for a response: len(outline) runs
\* inside the try block
StageAResult(r) ==
    LET t == OutlineParse(r)
    IN  IF t = "raises" \/ t \notin Sized THEN FallbackOutline
        ELSE [type |-> t, source |-> "response"]

\* the value stage_b_risk_overview returns for a response
RiskResult(r) ==
    LET t == RiskParse(r)
    IN  IF t = "raises" THEN [type |-> "dict", source |-> "fallback"]
        ELSE [type |-> t, source |-> "response"]

\* number of call_claude calls of stage_b_executive_summary
ExecutiveSummaryCalls == 3

InitStaged ==
    /\ st_pc = "stage_a"
    /\ st_responses = <<>>
    /\ outline = NoOutline
    /\ risk_overview = NoOutline
    /\ st_calls = 0
    /\ st_cause = "none"

\* stage_a_outline: one call, then the JSON parse with its fallback
StageAOutline ==
    /\ st_pc = "stage_a"
    /\ \E r \in StageResponses :
          /\ st_responses' = Append(st_responses, r)
          /\ outline' = StageAResult(r)
    /\ st_calls' = st_calls + 1
    /\ st_pc' = "stage_b_executive_summary"
    /\ UNCHANGED <<risk_overview, st_cause>>
    /\ UNCHANGED notStaged

\* a call_claude call raises: nothing in generate catches it (the calls of
\* stage_b_executive_summary are reached only once outline.get has returned)
ServiceCallRaises ==
    /\ st_pc \in {"stage_a", "stage_b_executive_summary", "stage_b_risk_overview"}
    /\ st_pc = "stage_b_executive_summary" => outline.type \in HasGet
    /\ st_calls' = st_calls + 1
    /\ st_pc' = "crashed"
    /\ st_cause' = "service_raised"
    /\ UNCHANGED <<st_responses, outline, risk_overview>>
    /\ UNCHANGED notStaged

\* generate: outline.get('executive_summary', []) and the three calls of
\* stage_b_executive_summary, whose texts are used as they are
StageBExecutiveSummary ==
    /\ st_pc = "stage_b_executive_summary"
    /\ IF outline.type \in HasGet
       THEN /\ st_calls' = st_calls + ExecutiveSummaryCalls
            /\ st_pc' = "stage_b_risk_overview"
            /\ UNCHANGED st_cause
       ELSE /\ st_pc' = "crashed"
            /\ st_cause' = "outline_has_no_get"
            /\ UNCHANGED st_calls
    /\ UNCHANGED <<st_responses, outline, risk_overview>>
    /\ UNCHANGED notStaged

\* stage_b_risk_overview: one call, then the JSON parse with its fallback
StageBRiskOverview ==
    /\ st_pc = "stage_b_risk_overview"
    /\ \E r \in StageResponses :
          /\ st_responses' = Append(st_responses, r)
          /\ risk_overview' = RiskResult(r)
    /\ st_calls' = st_calls + 1
    /\ st_pc' = "stage_c_findings"
    /\ UNCHANGED <<outline, st_cause>>
    /\ UNCHANGED notStaged

NextStaged ==
    \/ StageAOutline
    \/ ServiceCallRaises
    \/ StageBExecutiveSummary
    \/ StageBRiskOverview

InitSpecStaged ==
    InitStaged /\ InitExIdle /\ InitParseIdle /\ InitWebIdle /\ InitAsmIdle /\ InitApiIdle /\ InitAuthIdle /\ InitBatchIdle

SpecStaged == InitSpecStaged /\ [][NextStaged]_vars

\* C8: malformed service output is never a hard failure - for every text the
\* service returns, a response that is not the expected JSON object makes
\* the outline stage substitute its fallback outline, and the later stages
\* run (the run stops only when a service call itself fails).
MalformedOutputRecovered ==
    /\ st_pc = "crashed" => st_cause = "service_raised"
    /\ (outline # NoOutline /\ OutlineParse(st_responses[1]) # "dict")
          => outline = FallbackOutline

(***************************************************************************)
(* Pricing, parsing and extraction properties                              *)
(***************************************************************************)
\* the template-only document of an answered request
TemplateAnswered ==
    web_pc = "responded" /\ document.kind = "template"

\* the tier fee the pricing rule names for a budget
ClaimTierFee(b) ==
    IF b < 3000 THEN 899 ELSE IF b < 5000 THEN 1200 ELSE 1500

\* C11 as stated: in the template-only path the fee is 899 below 3000, 1200
\* from 3000 to below 5000 and 1500 from 5000 on, and the ad spend is
\* budget - fee except that it is 1500 whenever budget - fee <= fee.
TieredStrategyAsStated ==
    TemplateAnswered =>
        LET b == document.budget_shown
            fee == ClaimTierFee(b)
        IN  /\ document.management_fee = fee
            /\ document.ad_spend = IF b - fee <= fee THEN 1500 ELSE b - fee

\* C11 amended: the fee tiers are as stated, and the ad spend is budget - fee
\* except that it is 1500 whenever budget - fee <= 0 (budget <= fee).
TieredStrategy ==
    TemplateAnswered =>
        LET b == document.budget_shown
            fee == ClaimTierFee(b)
        IN  /\ document.management_fee = fee
            /\ document.ad_spend = IF b - fee <= 0 THEN 1500 ELSE b - fee

\* a template-only document for a budget equal to its fee: the 1500 case
TieredStrategyWitness ==
    /\ TemplateAnswered
    /\ document.budget_shown = 899
    /\ document.ad_spend = 1500

\* C12: parsing the Acme Roofing example yields company "Acme Roofing",
\* industry "Roofing", budget_num 4000, challenges "Low online visibility" and
\* "Outdated website", goals "More leads", services "Google Ads" and "SEO",
\* flags google = true, seo = true, social = false, and the tiered pricing
\* fee 1200, ad spend 2800, total 4000.
AcmeScenario ==
    (req_text = AcmeText /\ web_pc # "received") =>
        /\ web_pc = "responded" => response.success
        /\ (web_pc # "responded" \/ response.success) =>
              /\ parsed.data.company = <<"A", "c", "m", "e", " ", "R", "o", "o", "f", "i", "n", "g">>
              /\ parsed.data.industry = <<"R", "o", "o", "f", "i", "n", "g">>
              /\ parsed.budget_num = 4000
              /\ parsed.data.challenges =
                    << <<"L", "o", "w", " ", "o", "n", "l", "i", "n", "e", " ", "v", "i", "s", "i", "b", "i", "l", "i", "t", "y">>, <<"O", "u", "t", "d", "a", "t", "e", "d", " ", "w", "e", "b", "s", "i", "t", "e">> >>
              /\ parsed.data.goals = << <<"M", "o", "r", "e", " ", "l", "e", "a", "d", "s">> >>
              /\ parsed.data.services = << <<"G", "o", "o", "g", "l", "e", " ", "A", "d", "s">>, <<"S", "E", "O">> >>
        /\ web_pc = "responded" =>
              /\ document.flags.has_google_ads
              /\ document.flags.has_seo
              /\ ~ document.flags.has_social
        /\ TemplateAnswered =>
              /\ document.management_fee = 1200
              /\ document.ad_spend = 2800
              /\ document.total_monthly = 4000

\* the example text answered with the template-only document
AcmeScenarioWitness ==
    /\ req_text = AcmeText
    /\ TemplateAnswered
    /\ document.total_monthly = 4000

\* some tier of the start search has a match in the content
StartFound(c, name) ==
    \/ Contains(c, SECTION_PREFIX \o name)
    \/ Contains(c, COMMENT_PREFIX \o name)
    \/ Contains(Lower(c), ReplaceChar(Lower(name), "_", " "))

\* the cleaned fragment of a content in which the start is found
CleanedFragment(c, start, end) ==
    LET st == FindStart(c, start)
    IN  CleanSection(Slice(c, st[1], FindEnd(c, end, st[1], st[2])))

RECURSIVE CountOcc(_, _)
\* number of non-overlapping occurrences of sub in s, left to right
CountOcc(s, sub) ==
    LET i == Find(s, sub, 0)
    IN  IF i = -1 THEN 0
        ELSE 1 + CountOcc(Slice(s, i + Len(sub), Len(s)), sub)

\* the metadata entry of the data map, empty when there is none
MetadataOf(d) == IF "metadata" \in DOMAIN d THEN d["metadata"] ELSE <<>>

SingleShot ==
    /\ svc_calls <= 1
    /\ svc_outcome \in {"not_called", "no_library", "no_api_key"} => svc_calls = 0
    /\ svc_outcome = "raised" =>
          /\ svc_calls = 1
          /\ web_pc \in {"build", "responded"}
          /\ web_pc = "responded" => (response.success /\ document.kind = "template")

\* a request answered with the template-only document after its one call of
\* the service failed
SingleShotWitness ==
    /\ svc_outcome = "raised"
    /\ svc_calls = 1
    /\ web_pc = "responded"
    /\ document.kind = "template"

\* 0-based index of the first occurrence of pat in c, or -1
FirstOccurrence(c, pat) ==
    LET at == {i \in 1..(Len(c) - Len(pat) + 1) : SubSeq(c, i, i + Len(pat) - 1) = pat}
    IN  IF at = {} THEN -1 ELSE MinOf(at) - 1

\* the start index by ordered fallback: strict marker, else looser marker,
\* else the name, case-insensitive, with underscores as spaces
OrderedStart(c, name) ==
    LET strict == FirstOccurrence(c, <<"<", "!", "-", "-", " ", "S", "E", "C", "T", "I", "O", "N", ":", " ">> \o name)
        loose  == FirstOccurrence(c, <<"<", "!", "-", "-", " ">> \o name)
        plain  == FirstOccurrence(Lower(c), ReplaceChar(Lower(name), "_", " "))
    IN  IF strict # -1 THEN strict ELSE IF loose # -1 THEN loose ELSE plain

\* C19: the start of a section is found by ordered fallback, first match
\* wins - the first occurrence of the strict marker '<!-- SECTION: NAME' if
\* there is one, otherwise the first occurrence of the looser marker
\* '<!-- NAME', otherwise the first case-insensitive occurrence of the name
\* with underscores replaced by spaces (seen on the final section, whose
\* fragment runs from the start index to the end of the content).
StartByOrderedFallback ==
    (section # Unset /\ content # NoneVal /\ content # <<>> /\ end_marker = NoneVal) =>
        LET s == OrderedStart(content, start_marker)
        IN  IF s = -1 THEN section = NOT_AVAILABLE
            ELSE LET cleaned == CleanSection(Slice(content, s, Len(content)))
                 IN  section = IF cleaned = <<>> THEN NOT_AVAILABLE ELSE cleaned

\* the looser marker comes first in the content and the strict marker last:
\* the fragment starts at the strict marker and is empty
StartByOrderedFallbackWitness ==
    /\ content = <<"<", "!", "-", "-", " ", "N", "E", "X", "T", " ", "S", "T", "E", "P", "S", " ", "-", "-", ">", "<", "p", ">", "F", "e", "e", "<", "/", "p", ">", "<", "!", "-", "-", " ", "S", "E", "C", "T", "I", "O", "N", ":", " ", "N", "E", "X", "T", " ", "S", "T", "E", "P", "S", " ", "-", "-", ">">>
    /\ start_marker = <<"N", "E", "X", "T", " ", "S", "T", "E", "P", "S">>
    /\ end_marker = NoneVal
    /\ section = NOT_AVAILABLE

\* 0-based index of the first occurrence of pat in c at or after from, or -1
FirstOccurrenceFrom(c, pat, from) ==
    LET at == {i \in 1..(Len(c) - Len(pat) + 1) :
                 i - 1 >= from /\ SubSeq(c, i, i + Len(pat) - 1) = pat}
    IN  IF at = {} THEN -1 ELSE MinOf(at) - 1

\* length of the start pattern of the tier that found the start
OrderedStartLen(c, name) ==
    IF FirstOccurrence(c, <<"<", "!", "-", "-", " ", "S", "E", "C", "T", "I", "O", "N", ":", " ">> \o name) # -1
    THEN Len(<<"<", "!", "-", "-", " ", "S", "E", "C", "T", "I", "O", "N", ":", " ">>) + Len(name)
    ELSE IF FirstOccurrence(c, <<"<", "!", "-", "-", " ">> \o name) # -1
    THEN Len(<<"<", "!", "-", "-", " ">>) + Len(name)
    ELSE Len(name)

\* the end index: the three tiers for the next section name, the marker
\* tiers scanning from markerFrom and the name tier from nameFrom; the end of
\* the content when no tier matches or no next name is given
OrderedEnd(c, next, markerFrom, nameFrom) ==
    IF next = NoneVal THEN Len(c)
    ELSE LET strict == FirstOccurrenceFrom(c, <<"<", "!", "-", "-", " ", "S", "E", "C", "T", "I", "O", "N", ":", " ">> \o next, markerFrom)
             loose  == FirstOccurrenceFrom(c, <<"<", "!", "-", "-", " ">> \o next, markerFrom)
             plain  == FirstOccurrenceFrom(Lower(c),
                                           ReplaceChar(Lower(next), "_", " "), nameFrom)
             e == IF strict # -1 THEN strict ELSE IF loose # -1 THEN loose ELSE plain
         IN  IF e = -1 THEN Len(c) ELSE e

\* the value returned for the fragment between a start and an end index
FragmentBetween(c, s, e) ==
    LET cleaned == CleanSection(Slice(c, s, e))
    IN  IF cleaned = <<>> THEN NOT_AVAILABLE ELSE cleaned

\* a call on a non-empty content in which the start is found
StartLocated ==
    /\ section # Unset /\ content # NoneVal /\ content # <<>>
    /\ OrderedStart(content, start_marker) # -1

\* C20 as stated: the same three-tier search is run for the next section
\* name over the text after the start match, every tier scanning from the
\* same position just after the start; the fragment runs from the start
\* index up to the first such match, and to end-of-content when no tier
\* matches or no next section name is given; the end index is never before
\* the start index.
EndBoundaryAsStated ==
    StartLocated =>
        LET s    == OrderedStart(content, start_marker)
            from == s + OrderedStartLen(content, start_marker)
            e    == OrderedEnd(content, end_marker, from, from)
        IN  /\ e >= s
            /\ section = FragmentBetween(content, s, e)

\* C20 amended: as stated, except that only the two marker tiers scan from
\* just after the start match (start index + length of the start pattern);
\* the case-insensitive name tier scans from start index + 50.
EndBoundary ==
    StartLocated =>
        LET s    == OrderedStart(content, start_marker)
            from == s + OrderedStartLen(content, start_marker)
            e    == OrderedEnd(content, end_marker, from, s + 50)
        IN  /\ e >= s
            /\ section = FragmentBetween(content, s, e)

\* the next section's name occurs as plain text less than 50 characters
\* after the start: the fragment runs on to the end of the content
EndBoundaryWitness ==
    /\ content = <<"<", "!", "-", "-", " ", "S", "E", "C", "T", "I", "O", "N", ":", " ", "I", "N", "V", "E", "S", "T", "M", "E", "N", "T", " ", "-", "-", ">", "<", "p", ">", "F", "e", "e", "<", "/", "p", ">", "N", "e", "x", "t", " ", "S", "t", "e", "p", "s", " ">>
    /\ start_marker = <<"I", "N", "V", "E", "S", "T", "M", "E", "N", "T">>
    /\ end_marker = <<"N", "E", "X", "T", " ", "S", "T", "E", "P", "S">>
    /\ section = <<"<", "p", ">", "F", "e", "e", "<", "/", "p", ">", "N", "e", "x", "t", " ", "S", "t", "e", "p", "s">>

(***************************************************************************)
(* The JSON endpoints /api/generate, /api/preview, /api/generate-from-text *)
(* (app.py)                                                                *)
(***************************************************************************)
\* JSON values of a body field: a string, an integer or null
StrValue(s) == [t |-> "str", n |-> 0, s |-> s]

IntValue(n) == [t |-> "int", n |-> n, s |-> <<>>]

NullValue == [t |-> "null", n |-> 0, s |-> <<>>]

\* bool(v) of a JSON value
Truthy(v) ==
    CASE v.t = "str" -> v.s # <<>>
      [] v.t = "int" -> v.n # 0
      [] OTHER       -> FALSE

\* whether int(s) accepts the string: optional whitespace around an optional
\* sign and digits that single underscores may separate
IntAccepts(s) ==
    LET t    == Strip(s)
        body == IF t # <<>> /\ t[1] \in {"+", "-"} THEN Tail(t) ELSE t
    IN  /\ body # <<>>
        /\ \A i \in 1..Len(body) : body[i] \in DigitSet \cup {"_"}
        /\ body[1] # "_" /\ body[Len(body)] # "_"
        /\ \A i \in 1..(Len(body) - 1) : ~ (body[i] = "_" /\ body[i + 1] = "_")

\* int(s) for a string int() accepts
IntOfString(s) ==
    LET t    == Strip(s)
        neg  == t[1] = "-"
        body == IF t[1] \in {"+", "-"} THEN Tail(t) ELSE t
        mag  == IntOf(SelectSeq(body, LAMBDA c : c \in DigitSet))
    IN  IF neg THEN 0 - mag ELSE mag

\* int(data.get(key, default) or default): [raised, n]
IntField(fields, key, default) ==
    LET v == IF key \in DOMAIN fields THEN fields[key] ELSE IntValue(default)
    IN  IF ~ Truthy(v) THEN [raised |-> FALSE, n |-> default]
        ELSE IF v.t = "int" THEN [raised |-> FALSE, n |-> v.n]
        ELSE IF IntAccepts(v.s) THEN [raised |-> FALSE, n |-> IntOfString(v.s)]
        ELSE [raised |-> TRUE, n |-> 0]

\* defaults of generate_simple_preview
DefaultRetainer == 899

DefaultAdSpend == 1500

DefaultPainPoints == << <<"I", "n", "c", "r", "e", "a", "s", "e", " ", "o", "n", "l", "i", "n", "e", " ", "v", "i", "s", "i", "b", "i", "l", "i", "t", "y">> >>

DefaultShortGoals == << <<"I", "n", "c", "r", "e", "a", "s", "e", " ", "t", "r", "a", "f", "f", "i", "c">> >>

DefaultClient ==
    <<"C", "l", "i", "e", "n", "t">>

\* data.get(key, '').split('\n') if data.get(key) else default, keeping the
\* stripped non-blank items: [raised, items]; .split on an integer raises
ListField(fields, key, default) ==
    IF key \notin DOMAIN fields \/ ~ Truthy(fields[key])
    THEN [raised |-> FALSE, items |-> default]
    ELSE IF fields[key].t # "str" THEN [raised |-> TRUE, items |-> <<>>]
    ELSE LET parts == SplitOn(fields[key].s, {"\n"})
         IN  [raised |-> FALSE,
              items |-> SelectSeq([i \in 1..Len(parts) |-> Strip(parts[i])],
                                  LAMBDA x : x # <<>>)]

\* generate_simple_preview(data): [raised, html]; a body that is not a JSON
\* object has no .get
generate_simple_preview(body) ==
    IF body.kind # "object" THEN [raised |-> TRUE, html |-> NoDocument]
    ELSE LET f        == body.fields
             points   == ListField(f, "pain_points", DefaultPainPoints)
             goals    == ListField(f, "short_term_goals", DefaultShortGoals)
             retainer == IntField(f, "monthly_retainer", DefaultRetainer)
             ad_spend == IntField(f, "ad_spend", DefaultAdSpend)
         IN  IF points.raised \/ goals.raised \/ retainer.raised \/ ad_spend.raised
             THEN [raised |-> TRUE, html |-> NoDocument]
             ELSE [raised |-> FALSE,
                   html |-> [ kind |-> "preview",
                              client_name |->
                                  IF "client_name" \in DOMAIN f
                                  THEN f["client_name"] ELSE StrValue(DefaultClient),
                              pain_points |-> points.items,
                              short_goals |-> goals.items,
                              management_fee |-> retainer.n,
                              ad_spend |-> ad_spend.n,
                              total_monthly |-> retainer.n + ad_spend.n ]]

\* the import of ProposalGenerator from generator.py fails: the module
\* defines no such class
HAS_GENERATOR == FALSE

(***************************************************************************)
(* Requests                                                                *)
(***************************************************************************)
ApiRoutes == {"generate", "preview", "generate-from-text"}

\* values a form posts for an amount
AmountValues == {
    IntValue(1200), IntValue(0), NullValue,
    StrValue(<<"1", "2", "0", "0">>), StrValue(<<" ", "1", "_", "2", "0", "0", " ">>), StrValue(<<>>),
    StrValue(<<"a", "b", "c">>), StrValue(<<"1", "2", ".", "5">>), StrValue(<<"1", ",", "2", "0", "0">>) }

PreviewValues ==
    [ monthly_retainer |-> AmountValues,
      ad_spend         |-> { IntValue(2000), StrValue(<<"l", "o", "t", "s">>) },
      pain_points      |-> { StrValue(<<"F", "e", "w", " ", "l", "e", "a", "d", "s", "\n", "\n", " ", "O", "l", "d", " ", "s", "i", "t", "e", " ">>), IntValue(3) },
      short_term_goals |-> { StrValue(<<"M", "o", "r", "e", " ", "c", "a", "l", "l", "s">>) },
      client_name      |-> { StrValue(<<"A", "c", "m", "e">>) } ]

TextValues ==
    [ text |-> { StrValue(<<>>), NullValue, IntValue(0), IntValue(7),
                 StrValue(AcmeText),
                 StrValue(<<"B", "u", "d", "g", "e", "t", ":", " ", "$", "5", "0", "0", "/", "m", "o", "n", "t", "h">>),
                 StrValue(<<"B", "u", "d", "g", "e", "t", ":", " ", "T", "B", "D", ",", " ", "m", "a", "y", "b", "e", " ", "$", "3", ",", "0", "0", "0">>) } ]

\* a request body: not JSON at all, a JSON array, or a JSON object
ApiBodies(route) ==
    { [kind |-> "not_json", fields |-> <<>>], [kind |-> "array", fields |-> <<>>] }
    \cup { [kind |-> "object", fields |-> f] :
             f \in PartialMaps(IF route = "generate-from-text"
                               THEN TextValues ELSE PreviewValues) }

InitApi ==
    /\ api_route \in ApiRoutes
    /\ api_body \in ApiBodies(api_route)
    /\ api_pc = "received"
    /\ api_response = NoResponse
    /\ api_html = NoDocument
    /\ api_invoked = {}

\* api_preview: every exception is answered 500
ApiPreview ==
    /\ api_pc = "received" /\ api_route = "preview"
    /\ LET r == generate_simple_preview(api_body)
       IN  /\ api_response' = IF r.raised THEN [success |-> FALSE, status |-> 500]
                              ELSE [success |-> TRUE, status |-> 200]
           /\ api_html' = r.html
           /\ api_invoked' = IF api_body.kind = "object" THEN {"preview"} ELSE {}
    /\ api_pc' = "responded"
    /\ UNCHANGED <<api_route, api_body>>
    /\ UNCHANGED notApi

\* api_generate: ProposalAssembler() without arguments raises when the batch
\* modules were imported; otherwise the simple preview is generated
ApiGenerate ==
    /\ api_pc = "received" /\ api_route = "generate"
    /\ LET r == IF api_body.kind # "object" \/ HAS_GENERATOR
                THEN [raised |-> TRUE, html |-> NoDocument]
                ELSE generate_simple_preview(api_body)
       IN  /\ api_response' = IF r.raised THEN [success |-> FALSE, status |-> 500]
                              ELSE [success |-> TRUE, status |-> 200]
           /\ api_html' = r.html
           /\ api_invoked' = IF api_body.kind = "object" /\ ~ HAS_GENERATOR
                             THEN {"preview"} ELSE {}
    /\ api_pc' = "responded"
    /\ UNCHANGED <<api_route, api_body>>
    /\ UNCHANGED notApi

\* the body holds a text the handler passes on: if not text is false
TextGiven ==
    /\ api_body.kind = "object"
    /\ "text" \in DOMAIN api_body.fields
    /\ Truthy(api_body.fields["text"])

\* the text passed on is a non-empty string
TextUsable ==
    TextGiven /\ api_body.fields["text"].t = "str"

\* api_generate_from_text on a body that has no usable text: request.json
\* has no .get (500), the text is falsy (400), or it is not a string and
\* parse_client_text fails on text.strip() (500)
ApiTextRejected ==
    /\ api_pc = "received" /\ api_route = "generate-from-text"
    /\ ~ TextUsable
    /\ api_response' =
          IF api_body.kind # "object" THEN [success |-> FALSE, status |-> 500]
          ELSE IF ~ TextGiven THEN [success |-> FALSE, status |-> 400]
          ELSE [success |-> FALSE, status |-> 500]
    /\ api_invoked' = IF TextGiven THEN {"parser"} ELSE {}
    /\ api_pc' = "responded"
    /\ UNCHANGED <<api_route, api_body, api_html>>
    /\ UNCHANGED notApi

\* api_generate_from_text on a non-empty text: the parser, at most one call
\* of the service, and the document
ApiTextGenerated ==
    /\ api_pc = "received" /\ api_route = "generate-from-text"
    /\ TextUsable
    /\ LET p == parse_client_text(api_body.fields["text"].s)
       IN  IF p.raised
           THEN /\ api_response' = [success |-> FALSE, status |-> 500]
                /\ api_invoked' = {"parser"}
                /\ UNCHANGED api_html
           ELSE \E called \in BOOLEAN :
                \E ai \in IF called THEN AIReplies \cup {NoneVal} ELSE {NoneVal} :
                   /\ api_html' = ProposalDocument(p.data, p.budget_num, ai)
                   /\ api_invoked' = {"parser"} \cup (IF called THEN {"service"} ELSE {})
                   /\ api_response' = [success |-> TRUE, status |-> 200]
    /\ api_pc' = "responded"
    /\ UNCHANGED <<api_route, api_body>>
    /\ UNCHANGED notApi

NextApi ==
    \/ ApiPreview
    \/ ApiGenerate
    \/ ApiTextRejected
    \/ ApiTextGenerated

InitSpecApi ==
    InitApi /\ InitExIdle /\ InitParseIdle /\ InitWebIdle /\ InitAsmIdle /\ InitStagedIdle /\ InitAuthIdle /\ InitBatchIdle

SpecApi == InitSpecApi /\ [][NextApi]_vars

\* a request with malformed or missing required fields: an empty or missing
\* text on /api/generate-from-text; a body that is not a JSON object or a
\* non-numeric monthly_retainer or ad_spend on /api/preview and /api/generate
NonNumeric(fields, key) ==
    /\ key \in DOMAIN fields
    /\ fields[key].t = "str"
    /\ fields[key].s # <<>>
    /\ ~ IntAccepts(fields[key].s)

EmptyText ==
    /\ api_route = "generate-from-text"
    /\ api_body.kind = "object"
    /\ ("text" \in DOMAIN api_body.fields => api_body.fields["text"] = StrValue(<<>>))

InputError ==
    \/ EmptyText
    \/ /\ api_route \in {"preview", "generate"}
       /\ \/ api_body.kind # "object"
          \/ NonNumeric(api_body.fields, "monthly_retainer")
          \/ NonNumeric(api_body.fields, "ad_spend")

\* C15: input errors are reported as 4xx - every request with malformed or
\* missing required fields is answered with the failure envelope and a 4xx
\* status, never with a 5xx; for empty text neither the parser nor the
\* generation service is invoked.
InputErrorsAre4xx ==
    (api_pc = "responded" /\ InputError) =>
        /\ ~ api_response.success
        /\ api_response.status \in 400..499
        /\ EmptyText => api_invoked = {}

(***************************************************************************)
(* parse_client_text on lines that mix headers, topics and bullets         *)
(***************************************************************************)
\* number of lines that follow the line setting the context
MaxMixed == 2

\* a first line that sets current_section, or none
ContextLines == {
    <<>>,
    <<"C", "h", "a", "l", "l", "e", "n", "g", "e", "s", ":">>,
    <<"G", "o", "a", "l", "s", ":">>,
    <<"S", "e", "r", "v", "i", "c", "e", "s", ":">>,
    <<"C", "o", "m", "p", "e", "t", "i", "t", "o", "r", "s", ":">>,
    <<"O", "u", "r", " ", "c", "u", "s", "t", "o", "m", "e", "r", "s">> }

MixedLines == {
    <<"C", "o", "m", "p", "a", "n", "y", ":", " ", "A", "c", "m", "e">>,
    <<"-", " ", "I", "n", "d", "u", "s", "t", "r", "y", ":", " ", "g", "o", "a", "l", " ", "s", "e", "t", "t", "i", "n", "g">>,
    <<"S", "e", "c", "t", "o", "r", ":", " ", "R", "o", "o", "f", "i", "n", "g", ":", " ", "c", "o", "m", "p", "a", "n", "y", ":", " ", "x">>,
    <<":", " ", "W", "e", "b", "s", "i", "t", "e", ":", " ", "o", "d", "d", ".", "e", "x", "a", "m", "p", "l", "e">>,
    <<"P", "a", "i", "n", " ", "b", "u", "d", "g", "e", "t", ":", " ", "$", "9", "0", "0">>,
    <<"O", "u", "r", " ", "g", "o", "a", "l", "s">>,
    <<"-", " ", "P", "a", "i", "n", " ", "p", "o", "i", "n", "t", "s">>,
    <<"S", "e", "r", "v", "i", "c", "e", "s", ":", " ", "S", "E", "O", ";", " ", "P", "P", "C">>,
    <<"*", " ", "S", "e", "r", "v", "i", "c", "e", "s", " ", "w", "e", " ", "n", "e", "e", "d">>,
    <<"T", "a", "r", "g", "e", "t", ":", " ", "m", "o", "r", "e", " ", "l", "e", "a", "d", "s">>,
    <<"A", "u", "d", "i", "e", "n", "c", "e", ":", " ", "h", "o", "m", "e", "o", "w", "n", "e", "r", "s">>,
    <<"-", " ", "L", "o", "w", " ", "v", "i", "s", "i", "b", "i", "l", "i", "t", "y">>,
    <<"*", " ", "-", " ", "O", "l", "d", " ", "s", "i", "t", "e", " ">>,
    <<"u2022", " ", "S", "l", "o", "w">>,
    <<"M", "o", "r", "e", " ", "l", "e", "a", "d", "s">>,
    <<" ", " ", " ">> }

MixedTexts ==
    { JoinLines(SelectSeq(<<c>>, LAMBDA l : l # <<>>) \o p) :
        c \in ContextLines,
        p \in UNION { [1..k -> MixedLines] : k \in 1..MaxMixed } }

InitMixed ==
    /\ text \in MixedTexts
    /\ lines = SplitLines(text)
    /\ data = EmptyData
    /\ current_section = "none"
    /\ budget_num = -1
    /\ parse_pc = "scan"

InitSpecMixed ==
    InitMixed /\ InitExIdle /\ InitWebIdle /\ InitAsmIdle /\ InitStagedIdle /\ InitApiIdle /\ InitAuthIdle /\ InitBatchIdle

SpecMixed == InitSpecMixed /\ [][NextParse]_vars

\* the header fields with their keywords, in the order the precedence rule
\* lists them
HeaderGroups == <<
    [field |-> "company",  keys |-> CompanyKeys],
    [field |-> "industry", keys |-> IndustryKeys],
    [field |-> "location", keys |-> LocationKeys],
    [field |-> "budget",   keys |-> BudgetKeys],
    [field |-> "website",  keys |-> WebsiteKeys],
    [field |-> "contact",  keys |-> ContactKeys] >>

\* the field of the first header group with a keyword in the line, or "none"
HeaderOf(lower) ==
    LET hit == {i \in 1..Len(HeaderGroups) : AnyIn(lower, HeaderGroups[i].keys)}
    IN  IF hit = {} THEN "none" ELSE HeaderGroups[MinOf(hit)].field

\* the keywords that set current_section
TopicKeys ==
    AudienceKeys \cup ChallengeKeys \cup GoalKeys \cup ServiceKeys \cup CompetitorKeys

TopicSections == {"audience", "challenges", "goals", "services", "competitors"}

\* the text after the first colon of a line, leading whitespace removed
AfterFirstColon(line) ==
    LStripWs(Slice(line, FindAny(line, {":"}) + 1, Len(line)))

\* the same, except that a line starting with a colon is taken whole
AfterKeyPrefix(line) ==
    IF FindAny(line, {":"}) = 0 THEN line ELSE AfterFirstColon(line)

\* the loop is about to handle a line
ScanStep == parse_pc = "scan" /\ lines # <<>>

\* every field but the named ones is left as it was
OnlyChanges(fields) ==
    \A f \in DOMAIN data \ fields : data'[f] = data[f]

\* the services field is left as it was or, on a services line with a colon,
\* becomes the inline list
ServicesKeptOrInline(line, lower) ==
    \/ data'.services = data.services
    \/ /\ AnyIn(lower, ServiceKeys) /\ Contains(line, <<":">>)
       /\ data'.services = SplitServices(AfterFirstColon(line))

\* C17 as stated: precedence is header > topic > bullet > continuation - a
\* line with a header keyword sets that field to the text after the first
\* colon and resets current_section to none, whatever else it contains; a
\* line with no header keyword but a topic keyword only sets current_section
\* (services may also capture an inline list) and is never appended.
PrecedenceAsStated ==
    [][ScanStep =>
         LET line  == Strip(Head(lines))
             lower == Lower(line)
             h     == HeaderOf(lower)
         IN  IF line = <<>> THEN TRUE
             ELSE IF h # "none"
             THEN /\ data' = [data EXCEPT ![h] = AfterFirstColon(line)]
                  /\ current_section' = "none"
             ELSE IF AnyIn(lower, TopicKeys)
             THEN /\ current_section' \in TopicSections
                  /\ OnlyChanges({"services"})
                  /\ ServicesKeptOrInline(line, lower)
             ELSE TRUE]_vars

\* C17 amended: as stated, except that the stored text is the line without
\* its leading run of one or more non-colon characters, the colon and the
\* whitespace after it (a line that starts with a colon is stored whole), and
\* that a topic line with an audience keyword and a colon also sets the
\* audience field to that text.
Precedence ==
    [][ScanStep =>
         LET line  == Strip(Head(lines))
             lower == Lower(line)
             h     == HeaderOf(lower)
         IN  IF line = <<>> THEN TRUE
             ELSE IF h # "none"
             THEN /\ data' = [data EXCEPT ![h] = AfterKeyPrefix(line)]
                  /\ current_section' = "none"
             ELSE IF AnyIn(lower, TopicKeys)
             THEN /\ current_section' \in TopicSections
                  /\ OnlyChanges({"services", "audience"})
                  /\ ServicesKeptOrInline(line, lower)
                  /\ \/ data'.audience = data.audience
                     \/ /\ AnyIn(lower, AudienceKeys) /\ Contains(line, <<":">>)
                        /\ data'.audience = AfterKeyPrefix(line)
             ELSE TRUE]_vars

\* a bulleted line with a header keyword and a topic keyword was stored as
\* the industry while the goals topic was open
PrecedenceWitness ==
    /\ data.industry = <<"g", "o", "a", "l", " ", "s", "e", "t", "t", "i", "n", "g">>
    /\ data.goals = <<>>
    /\ current_section = "none"
    /\ Len(SplitLines(text)) = 2
    /\ SplitLines(text)[1] = <<"G", "o", "a", "l", "s", ":">>
    /\ lines = <<>>

RECURSIVE DropGlyphs(_)
\* a line without its leading bullet glyphs and blanks
DropGlyphs(s) ==
    IF s # <<>> /\ s[1] \in {"-", "*", "u2022", " "} THEN DropGlyphs(Tail(s)) ELSE s

\* C18: item lines change at most one list - a line that matches no header
\* or topic keyword and starts with a bullet glyph is appended, glyph
\* stripped, to exactly the list current_section points at (challenges,
\* goals, services or competitors) and to nothing when current_section is
\* none or audience; a non-bullet line is appended, unchanged, only when
\* current_section is challenges or goals; in both cases every other field,
\* every other list and current_section are left unchanged.
ItemLines ==
    [][ScanStep =>
         LET line  == Strip(Head(lines))
             lower == Lower(line)
         IN  IF line = <<>> \/ HeaderOf(lower) # "none" \/ AnyIn(lower, TopicKeys)
             THEN TRUE
             ELSE /\ current_section' = current_section
                  /\ IF line[1] \in {"-", "*", "u2022"}
                     THEN IF current_section \in
                               {"challenges", "goals", "services", "competitors"}
                          THEN data' = [data EXCEPT ![current_section] =
                                           Append(@, Strip(DropGlyphs(line)))]
                          ELSE data' = data
                     ELSE IF current_section \in {"challenges", "goals"}
                          THEN data' = [data EXCEPT ![current_section] =
                                           Append(@, line)]
                          ELSE data' = data]_vars

\* after 'Competitors:' a doubly bulleted line and a plain line were handled:
\* the first is in the competitors list, the second in no list
ItemLinesWitness ==
    /\ SplitLines(text) = << <<"C", "o", "m", "p", "e", "t", "i", "t", "o", "r", "s", ":">>, <<"*", " ", "-", " ", "O", "l", "d", " ", "s", "i", "t", "e", " ">>, <<"M", "o", "r", "e", " ", "l", "e", "a", "d", "s">> >>
    /\ lines = <<>>
    /\ current_section = "competitors"
    /\ data.competitors = << <<"O", "l", "d", " ", "s", "i", "t", "e">> >>
    /\ data.goals = <<>>

(***************************************************************************)
(* Sessions: login_required, index, login, authorize, logout (app.py)      *)
(***************************************************************************)
\* ALLOWED_DOMAINS with the environment variable unset
ALLOWED_DOMAINS == { <<"m", "e", "d", "i", "a", "f", "o", "r", "c", "e", ".", "c", "a">> }

\* the separator of an email address
AT_SIGN == Head(<<"@">>)

\* the last part of the split of an email at the separator
DomainOf(email) ==
    LET parts == SplitOn(email, {AT_SIGN})
    IN  parts[Len(parts)]

\* is_allowed_user(email)
is_allowed_user(email) ==
    /\ email # NoneVal
    /\ email # <<>>
    /\ DomainOf(email) \in ALLOWED_DOMAINS

\* os.environ.get('SKIP_AUTH', '').lower() == 'true'
SkipAuthIsTrue == skip_auth # NoneVal /\ Lower(skip_auth) = <<"t", "r", "u", "e">>

\* os.environ.get('SKIP_AUTH') is truthy
SkipAuthSet == skip_auth # NoneVal /\ skip_auth # <<>>

\* the routes behind @login_required
ProtectedRoutes ==
    {"dashboard", "create", "api_generate", "api_preview", "api_generate_from_text"}

\* the values of FLASK_ENV
FlaskEnvs == {"development", "production"}

\* the values of SKIP_AUTH, unset included
SkipAuthValues == { NoneVal, <<>>, <<"t", "r", "u", "e">>, <<"T", "r", "u", "e">>, <<"f", "a", "l", "s", "e">> }

\* the email the identity provider reports for the account that signs in
OAuthEmails == {
    <<"a", "n", "n", "@", "m", "e", "d", "i", "a", "f", "o", "r", "c", "e", ".", "c", "a">>,
    <<"e", "v", "e", "@", "e", "x", "a", "m", "p", "l", "e", ".", "c", "o", "m">>,
    <<"e", "v", "e", "@", "m", "e", "d", "i", "a", "f", "o", "r", "c", "e", ".", "c", "a", "@", "e", "x", "a", "m", "p", "l", "e", ".", "c", "o", "m">>,
    NoneVal }

InitAuth ==
    /\ flask_env \in FlaskEnvs
    /\ skip_auth \in SkipAuthValues
    /\ google \in {"registered", "none"}
    /\ session_user = NoUser
    /\ auth_last = NoRequest

\* a request to a route behind @login_required
ProtectedRequest ==
    \E route \in ProtectedRoutes :
        /\ auth_last' =
              IF flask_env = "development" /\ SkipAuthSet
              THEN [route |-> route, outcome |-> "handler"]
              ELSE IF session_user = NoUser
              THEN [route |-> route, outcome |-> "redirect_login"]
              ELSE [route |-> route, outcome |-> "handler"]
        /\ UNCHANGED <<flask_env, skip_auth, google, session_user>>
        /\ UNCHANGED notAuth

\* GET /
Index ==
    /\ IF SkipAuthIsTrue
       THEN /\ session_user' = IF session_user = NoUser
                               THEN [email |-> <<"s", "t", "a", "f", "f", "@", "m", "e", "d", "i", "a", "f", "o", "r", "c", "e", ".", "c", "a">>]
                               ELSE session_user
            /\ auth_last' = [route |-> "index", outcome |-> "redirect_dashboard"]
       ELSE /\ UNCHANGED session_user
            /\ auth_last' = [route |-> "index",
                             outcome |-> IF session_user # NoUser
                                         THEN "redirect_dashboard" ELSE "landing"]
    /\ UNCHANGED <<flask_env, skip_auth, google>>
    /\ UNCHANGED notAuth

\* GET /login
Login ==
    /\ IF google = "none"
       THEN IF flask_env = "development"
            THEN /\ session_user' = [email |-> <<"d", "e", "v", "@", "m", "e", "d", "i", "a", "f", "o", "r", "c", "e", ".", "c", "a">>]
                 /\ auth_last' = [route |-> "login", outcome |-> "redirect_dashboard"]
            ELSE /\ UNCHANGED session_user
                 /\ auth_last' = [route |-> "login", outcome |-> "error_500"]
       ELSE /\ UNCHANGED session_user
            /\ auth_last' = [route |-> "login", outcome |-> "redirect_provider"]
    /\ UNCHANGED <<flask_env, skip_auth, google>>
    /\ UNCHANGED notAuth

\* GET /authorize: the callback, with the email the provider reports
Authorize ==
    /\ IF google = "none"
       THEN /\ UNCHANGED session_user
            /\ auth_last' = [route |-> "authorize", outcome |-> "redirect_dashboard"]
       ELSE \E email \in OAuthEmails :
              IF ~ is_allowed_user(email)
              THEN /\ UNCHANGED session_user
                   /\ auth_last' = [route |-> "authorize", outcome |-> "redirect_index"]
              ELSE /\ session_user' = [email |-> email]
                   /\ auth_last' = [route |-> "authorize", outcome |-> "redirect_dashboard"]
    /\ UNCHANGED <<flask_env, skip_auth, google>>
    /\ UNCHANGED notAuth

\* GET /logout
Logout ==
    /\ session_user' = NoUser
    /\ auth_last' = [route |-> "logout", outcome |-> "redirect_index"]
    /\ UNCHANGED <<flask_env, skip_auth, google>>
    /\ UNCHANGED notAuth

NextAuth ==
    \/ ProtectedRequest
    \/ Index
    \/ Login
    \/ Authorize
    \/ Logout

InitSpecAuth ==
    InitAuth /\ InitExIdle /\ InitParseIdle /\ InitWebIdle /\ InitAsmIdle /\ InitStagedIdle /\ InitApiIdle /\ InitBatchIdle

SpecAuth == InitSpecAuth /\ [][NextAuth]_vars

\* C27: outside development mode, in every sequence of requests a session
\* user is created only by the /authorize callback for an email whose domain
\* is in ALLOWED_DOMAINS, and the handlers of the protected routes run only
\* while such a session user exists; after /logout no session user is left
\* and the protected routes redirect to login again.
SessionOnlyByAuthorize ==
    [][flask_env # "development" =>
        /\ (session_user' # session_user /\ session_user' # NoUser)
              => (auth_last'.route = "authorize" /\ is_allowed_user(session_user'.email))
        /\ (auth_last'.route \in ProtectedRoutes /\ auth_last'.outcome = "handler")
              => session_user' # NoUser
        /\ auth_last'.route = "logout" => session_user' = NoUser]_vars

(***************************************************************************)
(* ProposalGenerator.generate (proposal_generator.py): the batch tool      *)
(***************************************************************************)
\* the keys of proposal_data in the order generate calls their generators
SectionGenerators == <<
    "executive_summary", "your_business", "competitive_analysis", "strategy",
    "success_metrics", "timeline", "investment", "next_steps" >>

\* the fragments call_claude may return
SectionReplies == { <<"<", "p", ">", "A", "<", "/", "p", ">">>, <<"<", "p", ">", "B", "<", "/", "p", ">">> }

\* the metadata entry of metadata.json
BatchMetadata == [client_name |-> <<"A", "c", "m", "e">>]

\* templates/template.html and templates/proposal.css of the tool
BatchTemplate == <<"{", "{", "C", "L", "I", "E", "N", "T", "}", "}", "<", "!", "-", "-", " ", "S", "L", "O", "T", ":", " ", "E", "X", "E", "C", "U", "T", "I", "V", "E", "_", "S", "U", "M", "M", "A", "R", "Y", " ", "-", "-", ">", "<", "!", "-", "-", " ", "S", "L", "O", "T", ":", " ", "N", "E", "X", "T", "_", "S", "T", "E", "P", "S", " ", "-", "-", ">">>

BatchCss == <<"p", "{", "m", "a", "r", "g", "i", "n", ":", "0", "}">>

\* d with d[key] = value
WithKey(d, key, value) ==
    [k \in DOMAIN d \cup {key} |-> IF k = key THEN value ELSE d[k]]

InitBatch ==
    /\ batch_pc = "load_metadata"
    /\ proposal_data = <<>>
    /\ section_calls = <<>>
    /\ files = <<>>
    /\ batch_cause = "none"

\* data = self.load_metadata(); self.proposal_data['metadata'] = data['metadata']
LoadMetadata ==
    /\ batch_pc = "load_metadata"
    /\ \/ /\ proposal_data' = WithKey(proposal_data, "metadata", BatchMetadata)
          /\ batch_pc' = "sections"
          /\ UNCHANGED batch_cause
       \/ /\ batch_pc' = "raised"
          /\ batch_cause' = "metadata"
          /\ UNCHANGED proposal_data
    /\ UNCHANGED <<section_calls, files>>
    /\ UNCHANGED notBatch

\* a section generator that also saves the intermediate JSON after its call
GenerateSectionSaving ==
    /\ batch_pc = "sections"
    /\ Len(section_calls) < Len(SectionGenerators)
    /\ LET key == SectionGenerators[Len(section_calls) + 1]
       IN  /\ section_calls' = Append(section_calls, key)
           /\ \E reply \in SectionReplies :
                 /\ proposal_data' = WithKey(proposal_data, key, reply)
                 /\ files' = Append(files, [file |-> "json", holds |-> DOMAIN proposal_data'])
           /\ batch_pc' = "sections"
           /\ UNCHANGED batch_cause
    /\ UNCHANGED notBatch

\* self.proposal_data[key] = self.generate_<key>(data): the next generator
\* in line returns the text of call_claude, or its exception ends the run
GenerateSection ==
    /\ batch_pc = "sections"
    /\ Len(section_calls) < Len(SectionGenerators)
    /\ LET key == SectionGenerators[Len(section_calls) + 1]
       IN  /\ section_calls' = Append(section_calls, key)
           /\ \/ /\ \E reply \in SectionReplies :
                       proposal_data' = WithKey(proposal_data, key, reply)
                 /\ UNCHANGED <<batch_pc, batch_cause>>
              \/ /\ batch_pc' = "raised"
                 /\ batch_cause' = key
                 /\ UNCHANGED proposal_data
    /\ UNCHANGED files
    /\ UNCHANGED notBatch

\* json.dump(self.proposal_data, f) into <stem>_data.json
SaveJson ==
    /\ batch_pc = "sections"
    /\ Len(section_calls) = Len(SectionGenerators)
    /\ files' = Append(files, [file |-> "json", holds |-> DOMAIN proposal_data])
    /\ batch_pc' = "assemble"
    /\ UNCHANGED <<proposal_data, section_calls, batch_cause>>
    /\ UNCHANGED notBatch

\* ProposalAssembler(...).assemble(self.proposal_data) written to output_file,
\* or the templates cannot be read
WriteHtml ==
    /\ batch_pc = "assemble"
    /\ \/ /\ \E c \in 1..Len(ClockDates) :
                files' = Append(files,
                    [file |-> "html",
                     holds |-> assemble(BatchTemplate, BatchCss, proposal_data, ClockDates[c])])
          /\ batch_pc' = "done"
          /\ UNCHANGED batch_cause
       \/ /\ batch_pc' = "raised"
          /\ batch_cause' = "templates"
          /\ UNCHANGED files
    /\ UNCHANGED <<proposal_data, section_calls>>
    /\ UNCHANGED notBatch

NextBatch ==
    \/ LoadMetadata
    \/ GenerateSection
    \/ SaveJson
    \/ WriteHtml

InitSpecBatch ==
    InitBatch /\ InitExIdle /\ InitParseIdle /\ InitWebIdle /\ InitAsmIdle /\ InitStagedIdle /\ InitApiIdle /\ InitAuthIdle

SpecBatch == InitSpecBatch /\ [][NextBatch]_vars

(***************************************************************************)
(* assemble_html (examples/assemble_proposal.py) next to the assembler     *)
(***************************************************************************)
\* the slot markers with their fragment key and default, in the order
\* assemble_html replaces them
ExampleSlotMarkers == <<
    [ token |-> <<"<", "!", "-", "-", " ", "S", "L", "O", "T", ":", " ", "E", "X", "E", "C", "U", "T", "I", "V", "E", "_", "S", "U", "M", "M", "A", "R", "Y", " ", "-", "-", ">">>, key |-> "executive_summary",
      default |-> <<"<", "p", ">", "E", "x", "e", "c", "u", "t", "i", "v", "e", " ", "s", "u", "m", "m", "a", "r", "y", " ", "n", "o", "t", " ", "g", "e", "n", "e", "r", "a", "t", "e", "d", "<", "/", "p", ">">> ],
    [ token |-> <<"<", "!", "-", "-", " ", "S", "L", "O", "T", ":", " ", "Y", "O", "U", "R", "_", "B", "U", "S", "I", "N", "E", "S", "S", " ", "-", "-", ">">>, key |-> "your_business",
      default |-> <<"<", "p", ">", "Y", "o", "u", "r", " ", "b", "u", "s", "i", "n", "e", "s", "s", " ", "s", "e", "c", "t", "i", "o", "n", " ", "n", "o", "t", " ", "g", "e", "n", "e", "r", "a", "t", "e", "d", "<", "/", "p", ">">> ],
    [ token |-> <<"<", "!", "-", "-", " ", "S", "L", "O", "T", ":", " ", "C", "O", "M", "P", "E", "T", "I", "T", "I", "V", "E", "_", "A", "N", "A", "L", "Y", "S", "I", "S", " ", "-", "-", ">">>, key |-> "competitive_analysis",
      default |-> <<"<", "p", ">", "C", "o", "m", "p", "e", "t", "i", "t", "i", "v", "e", " ", "a", "n", "a", "l", "y", "s", "i", "s", " ", "n", "o", "t", " ", "g", "e", "n", "e", "r", "a", "t", "e", "d", "<", "/", "p", ">">> ],
    [ token |-> <<"<", "!", "-", "-", " ", "S", "L", "O", "T", ":", " ", "S", "T", "R", "A", "T", "E", "G", "Y", " ", "-", "-", ">">>, key |-> "strategy",
      default |-> <<"<", "p", ">", "S", "t", "r", "a", "t", "e", "g", "y", " ", "n", "o", "t", " ", "g", "e", "n", "e", "r", "a", "t", "e", "d", "<", "/", "p", ">">> ],
    [ token |-> <<"<", "!", "-", "-", " ", "S", "L", "O", "T", ":", " ", "S", "U", "C", "C", "E", "S", "S", "_", "M", "E", "T", "R", "I", "C", "S", " ", "-", "-", ">">>, key |-> "success_metrics",
      default |-> <<"<", "p", ">", "S", "u", "c", "c", "e", "s", "s", " ", "m", "e", "t", "r", "i", "c", "s", " ", "n", "o", "t", " ", "g", "e", "n", "e", "r", "a", "t", "e", "d", "<", "/", "p", ">">> ],
    [ token |-> <<"<", "!", "-", "-", " ", "S", "L", "O", "T", ":", " ", "T", "I", "M", "E", "L", "I", "N", "E", " ", "-", "-", ">">>, key |-> "timeline",
      default |-> <<"<", "p", ">", "T", "i", "m", "e", "l", "i", "n", "e", " ", "n", "o", "t", " ", "g", "e", "n", "e", "r", "a", "t", "e", "d", "<", "/", "p", ">">> ],
    [ token |-> <<"<", "!", "-", "-", " ", "S", "L", "O", "T", ":", " ", "I", "N", "V", "E", "S", "T", "M", "E", "N", "T", " ", "-", "-", ">">>, key |-> "investment",
      default |-> <<"<", "p", ">", "I", "n", "v", "e", "s", "t", "m", "e", "n", "t", " ", "n", "o", "t", " ", "g", "e", "n", "e", "r", "a", "t", "e", "d", "<", "/", "p", ">">> ],
    [ token |-> <<"<", "!", "-", "-", " ", "S", "L", "O", "T", ":", " ", "N", "E", "X", "T", "_", "S", "T", "E", "P", "S", " ", "-", "-", ">">>, key |-> "next_steps",
      default |-> <<"<", "p", ">", "N", "e", "x", "t", " ", "s", "t", "e", "p", "s", " ", "n", "o", "t", " ", "g", "e", "n", "e", "r", "a", "t", "e", "d", "<", "/", "p", ">">> ] >>

\* assemble_html(data, template, css) at the time `now`
assemble_html(d, template, css, now) ==
    LET metadata == Get(d, "metadata", <<>>)
        h1 == ReplaceTokens(template, MetaTokens, metadata)
        h2 == StrReplace(h1, PROPOSAL_DATE_TOKEN,
                         Get(metadata, "proposal_date", DefaultDate(now)))
        h3 == StrReplace(h2, YEAR_TOKEN, YearValue(now))
        h4 == ReplaceTokens(h3, ExampleSlotMarkers, d)
    IN  StrReplace(h4, CSS_LINK, <<"<", "s", "t", "y", "l", "e", ">", "\n">> \o css \o <<"\n", "<", "/", "s", "t", "y", "l", "e", ">">>)

\* templates that also hold the slots of the strategy and the investment
AgreeTemplates ==
    LexemeStrings(TemplateLexemes \cup { <<"<", "!", "-", "-", " ", "S", "L", "O", "T", ":", " ", "S", "T", "R", "A", "T", "E", "G", "Y", " ", "-", "-", ">">>,
                                         <<"<", "!", "-", "-", " ", "S", "L", "O", "T", ":", " ", "I", "N", "V", "E", "S", "T", "M", "E", "N", "T", " ", "-", "-", ">">> },
                  MaxTemplateParts)

InitAgree ==
    /\ asm_template \in AgreeTemplates
    /\ asm_css = <<"p", "{", "m", "a", "r", "g", "i", "n", ":", "0", "}">>
    /\ asm_data \in DataMaps
    /\ clock \in 1..Len(ClockDates)
    /\ outputs = <<>>
    /\ example_output = Unset

\* one call of assemble_html(data, template, css), at the time of the
\* assembler's call
AssembleHtml ==
    /\ example_output = Unset
    /\ example_output' = assemble_html(asm_data, asm_template, asm_css, ClockDates[clock])
    /\ UNCHANGED <<asm_template, asm_css, asm_data, clock, outputs>>
    /\ UNCHANGED notAsm

NextAgree == Assemble \/ AssembleHtml

InitSpecAgree ==
    InitAgree /\ InitExIdle /\ InitParseIdle /\ InitWebIdle /\ InitStagedIdle /\ InitApiIdle /\ InitAuthIdle /\ InitBatchIdle

SpecAgree == InitSpecAgree /\ [][NextAgree]_vars

\* C30: the two assemblers agree - for every template, css and data map (any
\* subset of keys present) ProposalAssembler.assemble and the batch example's
\* assemble_html return the same string, including the default text used for
\* each absent fragment and the inlined style block.
AssemblersAgree ==
    example_output # Unset => \A i \in 1..Len(outputs) : outputs[i] = example_output

(***************************************************************************)
(* Further properties of extraction, assembly, pricing and parsing         *)
(***************************************************************************)
\* the fragment of a located section before the heading rule is applied
FragmentBeforeHeading ==
    LET s    == OrderedStart(content, start_marker)
        from == s + OrderedStartLen(content, start_marker)
        e    == OrderedEnd(content, end_marker, from, s + 50)
    IN  Strip(RemoveComments(Slice(content, s, e)))

\* the text of the heading element a fragment starts with
HeadingText(frag) ==
    LET open  == FindAny(frag, {">"})
        rest  == Slice(frag, open + 1, Len(frag))
        close == FindAny(rest, {"<"})
    IN  Slice(rest, 0, close)

\* the heading text is the section's display title (case-insensitive,
\* underscores as spaces)
DuplicatesTitle(frag, name) ==
    Lower(Strip(HeadingText(frag))) = ReplaceChar(Lower(name), "_", " ")

\* C21: redundant-heading removal is conditional - extract_section removes
\* a heading element at the start of the fragment only when that heading's
\* text duplicates the section's own display title; a leading heading with
\* any other text is kept in the returned fragment.
HeadingRemovalConditional ==
    (StartLocated /\ HeadingMatchLen(FragmentBeforeHeading) > 0
       /\ ~ DuplicatesTitle(FragmentBeforeHeading, start_marker))
        => section = FragmentBeforeHeading

\* s holds a complete comment: an opening <!-- followed later by -->
HasComment(s) ==
    \E i \in 0..(Len(s) - 1) :
        MatchAt(s, COMMENT_OPEN, i) /\ Find(s, <<"-", "-", ">">>, i + 4) # -1

\* C22: cleaned fragments carry no delimiter syntax - every non-placeholder
\* string returned by extract_section contains no <!-- ... --> comment,
\* whatever characters the comment body holds, and has no leading or
\* trailing whitespace.
CleanFragments ==
    (section # Unset /\ section # NOT_AVAILABLE /\ section # IN_PROGRESS)
        => (~ HasComment(section) /\ Strip(section) = section)

\* the tokens of assemble with the values they stand for at the time now
TokenValues(css, d, now) ==
    LET metadata == Get(d, "metadata", <<>>)
    IN  [i \in 1..Len(MetaTokens) |->
            [token |-> MetaTokens[i].token,
             value |-> Get(metadata, MetaTokens[i].key, MetaTokens[i].default)]]
        \o << [token |-> PROPOSAL_DATE_TOKEN,
               value |-> Get(metadata, "proposal_date", DefaultDate(now))],
              [token |-> YEAR_TOKEN, value |-> YearValue(now)] >>
        \o [i \in 1..Len(SlotMarkers) |->
            [token |-> SlotMarkers[i].token,
             value |-> Get(d, SlotMarkers[i].key, SlotMarkers[i].default)]]
        \o << [token |-> CSS_LINK,
               value |-> <<"<", "s", "t", "y", "l", "e", ">">> \o css \o <<"<", "/", "s", "t", "y", "l", "e", ">">>] >>

RECURSIVE SubstituteOnce(_, _)
\* one left-to-right pass over the template: each token occurrence of the
\* template is replaced by its value, and values are not looked into
SubstituteOnce(s, pairs) ==
    IF s = <<>> THEN <<>>
    ELSE LET hit == {i \in 1..Len(pairs) : MatchAt(s, pairs[i].token, 0)}
         IN  IF hit = {} THEN <<Head(s)>> \o SubstituteOnce(Tail(s), pairs)
             ELSE LET p == pairs[MinOf(hit)]
                  IN  p.value \o SubstituteOnce(Slice(s, Len(p.token), Len(s)), pairs)

\* C23: substitution acts on the template only - the output of assemble
\* equals the template with every occurrence of each placeholder token and
\* slot marker of the original template replaced by its value, with values
\* inserted verbatim; a token, marker or stylesheet link inside a metadata
\* value or a fragment is not itself substituted.
SubstitutionOnTemplateOnly ==
    \A i \in 1..Len(outputs) :
        \E c \in 1..Len(ClockDates) :
            outputs[i] = SubstituteOnce(asm_template,
                             TokenValues(asm_css, asm_data, ClockDates[c]))

\* C24 as stated: in every generation path and for every parsed
\* budget_num >= 0 the ad spend shown in the document is never negative.
AdSpendNeverNegative ==
    Answered => document.ad_spend >= 0

\* C24: the template-only path shows an ad spend of at least 1 for every
\* parsed budget_num >= 0; the AI-content path shows budget - fee without a
\* floor, which is negative exactly when the budget is below 499.
AdSpendSign ==
    Answered =>
        IF document.kind = "template"
        THEN document.ad_spend >= 1
        ELSE /\ document.ad_spend = document.budget_shown - document.management_fee
             /\ (document.ad_spend < 0 <=> document.budget_shown < 499)

\* an AI-content document for a budget of 1 shows an ad spend of -498
AdSpendSignWitness ==
    /\ Answered
    /\ document.kind = "ai"
    /\ document.budget_shown = 1
    /\ document.ad_spend = -498

\* C25: in the AI-content path, for every budget, the management fee and
\* the ad spend quoted in the prompt sent to the generation service equal
\* the management fee and the ad spend rendered in the price box of the
\* final document.
PromptMatchesPriceBox ==
    (Answered /\ document.kind = "ai") =>
        /\ prompt # NoPrompt
        /\ prompt.management_fee = document.management_fee
        /\ prompt.ad_spend = document.ad_spend

\* the lists parse_client_text collects items in
ItemLists == {"challenges", "goals", "services", "competitors"}

\* s is an initial part of t
IsPrefix(s, t) == Len(s) <= Len(t) /\ SubSeq(t, 1, Len(s)) = s

\* the line is handled by the services branch and holds a colon
InlineServicesLine(line) ==
    LET lower == Lower(line)
    IN  /\ line # <<>>
        /\ HeaderOf(lower) = "none"
        /\ ~ AnyIn(lower, AudienceKeys \cup ChallengeKeys \cup GoalKeys)
        /\ AnyIn(lower, ServiceKeys)
        /\ Contains(line, <<":">>)

\* C26 as stated: while parse_client_text scans the lines, each of the lists
\* challenges, goals, services and competitors only grows - an item once
\* collected is never removed or replaced by a later line.
ListsOnlyGrowAsStated ==
    [][\A f \in ItemLists : IsPrefix(data[f], data'[f])]_vars

\* C26 amended: challenges, goals and competitors only grow, up to the
\* returned record; services only grows except on a line of the services
\* branch that holds a colon, which replaces the list by its inline list.
ListsOnlyGrow ==
    [][/\ \A f \in ItemLists \ {"services"} : IsPrefix(data[f], data'[f])
       /\ \/ IsPrefix(data.services, data'.services)
          \/ /\ ScanStep
             /\ InlineServicesLine(Strip(Head(lines)))
             /\ data'.services = SplitServices(AfterKeyPrefix(Strip(Head(lines))))]_vars

\* a service collected from a bullet was replaced by the inline list of a
\* later services line
ListsOnlyGrowWitness ==
    /\ SplitLines(text) = << <<"S", "e", "r", "v", "i", "c", "e", "s", ":">>, <<"-", " ", "L", "o", "w", " ", "v", "i", "s", "i", "b", "i", "l", "i", "t", "y">>, <<"S", "e", "r", "v", "i", "c", "e", "s", ":", " ", "S", "E", "O", ";", " ", "P", "P", "C">> >>
    /\ lines = <<>>
    /\ parse_pc # "scan"
    /\ data.services = << <<"S", "E", "O">>, <<"P", "P", "C">> >>

\* 0-based position of the strict marker of the i-th section in ai
StrictPosition(ai, i) == FirstOccurrence(ai, SECTION_PREFIX \o AISectionNames[i])

\* each strict marker occurs exactly once, in the canonical order
StrictOnceInOrder(ai) ==
    /\ ai # NoneVal
    /\ \A i \in 1..7 : CountOcc(ai, SECTION_PREFIX \o AISectionNames[i]) = 1
    /\ \A i \in 1..6 : StrictPosition(ai, i) < StrictPosition(ai, i + 1)

\* the region of the i-th section: from its marker to the next section's
\* marker, or to the end of the content for the last section
RegionOf(ai, i) ==
    [from |-> StrictPosition(ai, i),
     to   |-> IF i < 7 THEN StrictPosition(ai, i + 1) ELSE Len(ai)]

\* C28: when the AI content holds the strict marker of each of the seven
\* sections exactly once, in canonical order, the seven fragments of the AI
\* path come from pairwise disjoint regions of the content in that order -
\* each fragment is the cleaned text between its own marker and the next
\* section's marker (end-of-content for the last).
DisjointRegions ==
    (Answered /\ document.kind = "ai" /\ StrictOnceInOrder(ai_content)) =>
        \A i \in 1..7 :
            /\ document.sections[i].body =
                   FragmentBetween(ai_content, RegionOf(ai_content, i).from,
                                   RegionOf(ai_content, i).to)
            /\ i < 7 => RegionOf(ai_content, i).to = RegionOf(ai_content, i + 1).from

\* a reply whose sections name each other was cut into its seven regions
DisjointRegionsWitness ==
    /\ Answered
    /\ document.kind = "ai"
    /\ ai_content = MarkedReply(CrossReferenceBodies)
    /\ StrictOnceInOrder(ai_content)
    /\ document.sections[1].body = <<"<", "p", ">", "S", "u", "m", "m", "a", "r", "y", ";", " ", "s", "e", "e", " ", "N", "e", "x", "t", " ", "S", "t", "e", "p", "s", " ", "a", "n", "d", " ", "I", "n", "v", "e", "s", "t", "m", "e", "n", "t", ".", "<", "/", "p", ">">>
    /\ document.sections[6].body = <<"<", "p", ">", "F", "e", "e", "<", "/", "p", ">">>
    /\ document.sections[7].body = <<"<", "p", ">", "C", "a", "l", "l", " ", "u", "s", "<", "/", "p", ">">>

\* the sequence of the names of the files written
FileNames == [i \in 1..Len(files) |-> files[i].file]

\* C29: the batch ProposalGenerator.generate runs the eight section
\* generators in the fixed order executive_summary, your_business,
\* competitive_analysis, strategy, success_metrics, timeline, investment,
\* next_steps; the intermediate JSON is written only after all eight have
\* succeeded and the final HTML only after the JSON; if any section call
\* fails, neither file is written.
BatchOrder ==
    /\ IsPrefix(section_calls, SectionGenerators)
    /\ FileNames \in { <<>>, <<"json">>, <<"json", "html">> }
    /\ files # <<>> =>
          /\ section_calls = SectionGenerators
          /\ files[1].holds = {"metadata"} \cup { SectionGenerators[i] : i \in 1..8 }
          /\ DOMAIN proposal_data = files[1].holds
    /\ batch_cause \in { SectionGenerators[i] : i \in 1..8 } =>
          /\ files = <<>>
          /\ batch_pc = "raised"
          /\ batch_cause = section_calls[Len(section_calls)]

\* a run wrote the JSON and then the HTML after the eight calls
BatchOrderWitness ==
    /\ batch_pc = "done"
    /\ section_calls = SectionGenerators
    /\ FileNames = <<"json", "html">>
    /\ proposal_data["strategy"] = <<"<", "p", ">", "B", "<", "/", "p", ">">>

====
